---------------------------- MODULE Spec2Model ----------------------------
(***************************************************************************)
(* Trace-analysis core of browser-use-cli (src/src/trace_analyzer.py) and *)
(* its browser controller.                                                 *)
(*                                                                         *)
(*   SpecBasic    PlaywrightTrace._parse_trace_file / analyze_trace        *)
(*   SpecConvert  EnhancedTraceAnalyzer._convert_playwright_trace, one     *)
(*                loop iteration per step, and the failure projection      *)
(*   SpecLoad     EnhancedTraceAnalyzer._load_trace_data and the           *)
(*                analytical calls of one analyzer instance                *)
(*   SpecBrowser  BrowserController (src/src/utils/browser_controller.py): *)
(*                initialize, _do_browser_init and cleanup as asyncio      *)
(*                coroutines that interleave at their awaits               *)
(*                                                                         *)
(* Python values: None is the empty sequence, a present optional value v   *)
(* is <<v>>; a dict is a record whose DOMAIN is its key set, so that       *)
(* `k in d` is k \in DOMAIN d and d.get(k, default) is Get(d, k, default). *)
(***************************************************************************)
EXTENDS Integers, Sequences, FiniteSets, TLC

VARIABLES
    \* ---- PlaywrightTrace (Basic model) ----
    pathState,          \* what trace_path names: "missing", "dir", "notzip", "zip"
    traceLines,         \* the lines of the archive's trace.trace member
    harFile,            \* the archive's trace.har member, once it was read
    linePos,            \* number of lines the parse loop has consumed
    actions,            \* PlaywrightTrace.actions
    network_requests,   \* PlaywrightTrace.network_requests
    console_logs,       \* PlaywrightTrace.console_logs
    errors,             \* PlaywrightTrace.errors
    basicPc,            \* position of analyze_trace
    basicResult,        \* what analyze_trace returned / raised
    \* ---- _convert_playwright_trace ----
    trace_events,       \* the argument trace_events
    eventPos,           \* number of events the step loop has consumed
    steps,              \* the local list `steps`
    current_step,       \* the local `current_step` (None or a step)
    convertPc,          \* position of _convert_playwright_trace
    network_events,     \* the argument network_events, once it was read
    convertResult,      \* what _convert_playwright_trace returned / raised
    failuresResult,     \* what analyze_failures returned for that document
    analysisLog,        \* the latest other projection called on it, with its outcome
    \* ---- one EnhancedTraceAnalyzer instance and its callers ----
    fs,                 \* what trace_file_path names on disk now
    _trace_data,        \* EnhancedTraceAnalyzer._trace_data
    loadLog,            \* one entry per run of the body of `if self._trace_data is None`
    calls,              \* the analytical calls (coroutines) made on the instance
    \* ---- one BrowserController and its callers (utils/browser_controller.py) ----
    browser,            \* BrowserController.browser: 0 is None, n the n-th browser launched
    init_promise,       \* BrowserController.init_promise: 0 is None, n the n-th init task
    init_count,         \* BrowserController.init_count
    _playwright,        \* BrowserController._playwright: 0 is None, n the n-th instance
    progress_events,    \* logger.progress_events, as [step, status]
    browser_events,     \* logger.browser_events, as [event_type, count]
    initCalls,          \* the initialize() calls made, each with its position
    initTasks,          \* the tasks created for _do_browser_init(), each with its position
    cleanupCalls,       \* the cleanup() calls made, each with its position
    playwrights,        \* per Playwright instance started: the number of stop() calls on it
    browsers,           \* per browser launched: the number of close() calls on it
    ready,              \* the event loop's queue of ready handles, oldest first
    \* ---- one ErrorHandler and its callers (utils/error_handling.py) ----
    _retry_counts,      \* ErrorHandler._retry_counts: operation -> count
    _last_error,        \* ErrorHandler._last_error
    handlerCalls,       \* the handle_error() calls made, each with its position
    \* ---- one TaskLogger and an execute_with_retry call (utils/task_logging.py) ----
    context,            \* TaskLogger.context: retries, error, current_step
    retryRun,           \* the execute_with_retry() call made, with its locals and position
    \* ---- the command line module (cli/browser_use_cli.py) ----
    state_file,         \* content of <tempdir>/browser_use_state, None when absent
    _global_browser,    \* module global: the Browser in use, None when unset
    _global_browser_context, \* module global: its BrowserContext, None when unset
    cliBrowsers,        \* the Browser objects launched, each with its context
    cliCalls            \* the calls made, each with its arguments and outcome

basicVars == <<pathState, traceLines, harFile, linePos, actions,
               network_requests, console_logs, errors, basicPc, basicResult>>
convertVars == <<trace_events, eventPos, steps, current_step, convertPc,
                 network_events, convertResult, failuresResult, analysisLog>>
loadVars == <<fs, _trace_data, loadLog, calls>>
browserVars == <<browser, init_promise, init_count, _playwright, progress_events,
                 browser_events, initCalls, initTasks, cleanupCalls, playwrights, browsers,
                 ready>>
handlerVars == <<_retry_counts, _last_error, handlerCalls>>
retryVars == <<context, retryRun>>
cliVars == <<state_file, _global_browser, _global_browser_context, cliBrowsers, cliCalls>>
utilsVars == <<handlerVars, retryVars, cliVars>>
vars == <<basicVars, convertVars, loadVars, browserVars, utilsVars>>
notBasicVars == <<convertVars, loadVars, browserVars, utilsVars>>
notConvertVars == <<basicVars, loadVars, browserVars, utilsVars>>
notLoadVars == <<basicVars, convertVars, browserVars, utilsVars>>
notBrowserVars == <<basicVars, convertVars, loadVars, utilsVars>>
notHandlerVars == <<basicVars, convertVars, loadVars, browserVars, retryVars, cliVars>>
notRetryVars == <<basicVars, convertVars, loadVars, browserVars, handlerVars, cliVars>>
notCliVars == <<basicVars, convertVars, loadVars, browserVars, handlerVars, retryVars>>

(***************************************************************************)
(* Bounds of the model.                                                    *)
(***************************************************************************)
MaxLines == 3       \* lines in a trace.trace member (Basic model)
MaxHarEntries == 2  \* entries in a trace.har log
MaxEvents == 3      \* events in the trace and network streams of one archive
MaxCalls == 2       \* analytical calls made on one analyzer instance
MaxProjectionCalls == 1  \* projection calls made on one converted document
MaxControllerCalls == 3  \* initialize() and cleanup() calls made on one BrowserController
MaxLaunchFailures == 1   \* browser launches that fail
MaxHandlerCalls == 4     \* handle_error() calls made on one ErrorHandler
MaxRetries == 2          \* largest RetryConfig.max_retries given to execute_with_retry

(***************************************************************************)
(* Python values.                                                          *)
(***************************************************************************)
None == << >>
Some(v) == <<v>>
Has(d, k) == k \in DOMAIN d
Get(d, k, default) == IF k \in DOMAIN d THEN d[k] ELSE default
GetOpt(d, k) == IF k \in DOMAIN d THEN Some(d[k]) ELSE None
EmptyDict == [k \in {} |-> 0]

RECURSIVE SeqsUpTo(_, _)
SeqsUpTo(S, n) ==
    IF n = 0 THEN { << >> }
    ELSE LET shorter == SeqsUpTo(S, n - 1)
         IN  shorter \cup { Append(s, x) : s \in { t \in shorter : Len(t) = n - 1 }, x \in S }

(***************************************************************************)
(* Lines of a trace member.  `raw` is the text of the line and `json` what *)
(* json.loads makes of it: <<object>>, or None when it raises              *)
(* JSONDecodeError.                                                        *)
(***************************************************************************)
EvBeforeGoto ==
    [type |-> "before", method |-> "goto", params |-> [url |-> "https://example.com"],
     timestamp |-> 1000]
EvAfterGoto ==
    [type |-> "after", method |-> "goto", params |-> [url |-> "https://example.com"],
     timestamp |-> 1500]
EvAfterClickError ==
    [type |-> "after", method |-> "click", params |-> [selector |-> "#missing-button"],
     timestamp |-> 2000, error |-> [message |-> "Element not found"]]
EvAfterNoParams == [type |-> "after", method |-> "goto", timestamp |-> 1500]
EvConsole == [type |-> "console", text |-> "Valid event"]
EvError == [type |-> "error", error |-> [message |-> "Test error message"]]
EvNoType == [method |-> "goto", params |-> [url |-> "https://example.com"]]

JsonLine(text, obj) == [raw |-> text, json |-> Some(obj)]
BadLine == [raw |-> "Invalid JSON data", json |-> None]
BlankLine == [raw |-> "  ", json |-> None]

BasicLines ==
    { JsonLine("before-goto", EvBeforeGoto),
      JsonLine("after-goto", EvAfterGoto),
      JsonLine("after-click-error", EvAfterClickError),
      JsonLine("after-goto-noparams", EvAfterNoParams),
      JsonLine("console", EvConsole),
      JsonLine("error", EvError),
      JsonLine("no-type", EvNoType),
      BadLine,
      BlankLine }

\* line.strip(): the line with its surrounding whitespace removed
Strip(raw) == IF raw \in {"", " ", "  "} THEN "" ELSE raw

(***************************************************************************)
(* HAR files.                                                              *)
(***************************************************************************)
HarEntry200 ==
    [request |-> [url |-> "https://example.com", method |-> "GET"],
     response |-> [status |-> 200, statusText |-> "OK"], time |-> 150]
HarEntry404 ==
    [request |-> [url |-> "https://example.com/missing", method |-> "GET"],
     response |-> [status |-> 404, statusText |-> "Not Found"], time |-> 100]
HarEntry400 ==
    [request |-> [url |-> "https://example.com/bad", method |-> "POST"],
     response |-> [status |-> 400, statusText |-> "Bad Request"]]
HarEntryNoStatus == [request |-> [url |-> "https://example.com/pending"]]
HarEntries == { HarEntry200, HarEntry404, HarEntry400, HarEntryNoStatus }

NoHar == [present |-> FALSE, data |-> [nolog |-> TRUE]]
HarFiles ==
    { NoHar, [present |-> TRUE, data |-> [version |-> "1.2"]],
      [present |-> TRUE, data |-> [log |-> [version |-> "1.2"]]] }
    \cup { [present |-> TRUE, data |-> [log |-> [entries |-> es]]] :
             es \in SeqsUpTo(HarEntries, MaxHarEntries) }

(***************************************************************************)
(* PlaywrightTrace._process_event: the entry the event appends to          *)
(* self.actions.                                                           *)
(***************************************************************************)
\* variant: a `before` without error counts as a success, as if it were paired
ActionSuccessPaired(event) == ~ Has(event, "error")

ActionSuccess(event) == event.type = "after" /\ ~ Has(event, "error")

ActionEntry(event) ==
    [type |-> event.method,
     timestamp |-> Get(event, "timestamp", 0),
     duration |-> Get(event, "duration", 0),
     params |-> event.params,
     success |-> ActionSuccess(event),
     error |-> GetOpt(event, "error")]

\* the four collections after _process_event(event)
ProcessEvent(st, event) ==
    IF ~ Has(event, "type") THEN st
    ELSE IF event.type \in {"before", "after"}
    THEN IF Has(event, "method") /\ Has(event, "params")
         THEN [st EXCEPT !.actions = Append(@, ActionEntry(event))]
         ELSE st
    ELSE IF event.type = "console"
    THEN IF Has(event, "text")
         THEN [st EXCEPT !.console_logs = Append(@, event.text)]
         ELSE st
    ELSE IF event.type = "error"
    THEN IF Has(event, "error")
         THEN [st EXCEPT !.errors = Append(@, Get(event.error, "message", "str(error)"))]
         ELSE st
    ELSE st

(***************************************************************************)
(* PlaywrightTrace._process_har.                                           *)
(***************************************************************************)
\* variant: the boundary status 400 is not a failure
HarFailureAbove400(response) == Get(response, "status", 0) > 400

HarFailure(response) == Get(response, "status", 0) >= 400

NetworkRequest(entry) ==
    LET request == Get(entry, "request", EmptyDict)
        response == Get(entry, "response", EmptyDict)
    IN  [url |-> GetOpt(request, "url"),
         method |-> GetOpt(request, "method"),
         status |-> GetOpt(response, "status"),
         statusText |-> GetOpt(response, "statusText"),
         duration |-> GetOpt(entry, "time"),
         failure |-> HarFailure(response)]

ProcessHar(har_data) ==
    IF Has(har_data, "log") /\ Has(har_data.log, "entries")
    THEN [i \in 1..Len(har_data.log.entries) |-> NetworkRequest(har_data.log.entries[i])]
    ELSE << >>

(***************************************************************************)
(* analyze_trace: the summary of the returned mapping.                     *)
(***************************************************************************)
Summary ==
    [total_actions |-> Len(actions),
     failed_actions |-> Cardinality({ i \in 1..Len(actions) : ~ actions[i].success }),
     total_requests |-> Len(network_requests),
     failed_requests |-> Cardinality({ i \in 1..Len(network_requests) : network_requests[i].failure }),
     total_errors |-> Len(errors)]

(***************************************************************************)
(* The Basic pipeline as a state machine.                                  *)
(***************************************************************************)
BasicIdle ==
    /\ pathState = "zip" /\ traceLines = << >> /\ harFile = NoHar /\ linePos = 0
    /\ actions = << >> /\ network_requests = << >> /\ console_logs = << >>
    /\ errors = << >> /\ basicPc = "off" /\ basicResult = None

ConvertIdle ==
    /\ trace_events = << >> /\ eventPos = 0 /\ steps = << >>
    /\ current_step = None /\ convertPc = "off"
    /\ network_events = << >> /\ convertResult = None /\ failuresResult = None
    /\ analysisLog = << >>

LoadIdle ==
    /\ fs = [path |-> "missing", archive |-> [trace |-> None, network |-> None]]
    /\ _trace_data = None /\ loadLog = << >> /\ calls = << >>

BrowserIdle ==
    /\ browser = 0 /\ init_promise = 0 /\ init_count = 0 /\ _playwright = 0
    /\ progress_events = << >> /\ browser_events = << >>
    /\ initCalls = << >> /\ initTasks = << >> /\ cleanupCalls = << >>
    /\ playwrights = << >> /\ browsers = << >> /\ ready = << >>

HandlerIdle == _retry_counts = EmptyDict /\ _last_error = None /\ handlerCalls = << >>

\* TaskLogger.__init__: task_logging.py lines 295-311
FreshContext ==
    [retries |-> [attempts |-> 0, success |-> FALSE, history |-> << >>],
     error |-> None,
     current_step |-> [number |-> 1, status |-> "pending"]]

RetryIdle == context = FreshContext /\ retryRun = None

CliIdle ==
    /\ state_file = None /\ _global_browser = None /\ _global_browser_context = None
    /\ cliBrowsers = << >> /\ cliCalls = << >>

UtilsIdle == HandlerIdle /\ RetryIdle /\ CliIdle

InitBasic ==
    /\ UtilsIdle
    /\ pathState \in {"missing", "dir", "notzip", "zip"}
    /\ traceLines \in (IF pathState = "zip" THEN SeqsUpTo(BasicLines, MaxLines) ELSE { << >> })
    /\ harFile = NoHar
    /\ linePos = 0
    /\ actions = << >> /\ network_requests = << >>
    /\ console_logs = << >> /\ errors = << >>
    /\ basicPc = "start"
    /\ basicResult = None
    /\ ConvertIdle /\ LoadIdle /\ BrowserIdle

\* trace_path.exists() is false: FileNotFoundError
ParseMissing ==
    /\ basicPc = "start" /\ pathState = "missing"
    /\ basicPc' = "raised"
    /\ basicResult' = Some([raised |-> "FileNotFoundError"])
    /\ UNCHANGED <<pathState, traceLines, harFile, linePos, actions,
                   network_requests, console_logs, errors, notBasicVars>>

\* trace_path is a directory: exists() is true and zipfile.ZipFile raises
\* IsADirectoryError, which `except zipfile.BadZipFile` does not catch
ParseDirectory ==
    /\ basicPc = "start" /\ pathState = "dir"
    /\ basicPc' = "raised"
    /\ basicResult' = Some([raised |-> "IsADirectoryError"])
    /\ UNCHANGED <<pathState, traceLines, harFile, linePos, actions,
                   network_requests, console_logs, errors, notBasicVars>>

\* zipfile.ZipFile raises BadZipFile: ValueError("Invalid trace file format")
ParseBadZip ==
    /\ basicPc = "start" /\ pathState = "notzip"
    /\ basicPc' = "raised"
    /\ basicResult' = Some([raised |-> "ValueError: Invalid trace file format"])
    /\ UNCHANGED <<pathState, traceLines, harFile, linePos, actions,
                   network_requests, console_logs, errors, notBasicVars>>

ParseOpen ==
    /\ basicPc = "start" /\ pathState = "zip"
    /\ basicPc' = "lines"
    /\ UNCHANGED <<pathState, traceLines, harFile, linePos, actions,
                   network_requests, console_logs, errors, basicResult, notBasicVars>>

\* variant: `except json.JSONDecodeError: pass`, the line leaves no diagnostic
OnLineSilent(st, line) ==
    IF Strip(line.raw) = "" \/ line.json = None THEN st
    ELSE ProcessEvent(st, line.json[1])

\* the body of `for line in trace_data.split('\n')`: the collections after it
OnLine(st, line) ==
    IF Strip(line.raw) = "" THEN st
    ELSE IF line.json = None
    THEN [st EXCEPT !.errors = Append(@, "Failed to parse trace event: " \o line.raw)]
    ELSE ProcessEvent(st, line.json[1])

\* one iteration of `for line in trace_data.split('\n')`
ParseLine ==
    /\ basicPc = "lines" /\ linePos < Len(traceLines)
    /\ LET line == traceLines[linePos + 1]
           st == [actions |-> actions, console_logs |-> console_logs, errors |-> errors]
           st2 == OnLine(st, line)
       IN  /\ actions' = st2.actions
           /\ console_logs' = st2.console_logs
           /\ errors' = st2.errors
    /\ linePos' = linePos + 1
    /\ UNCHANGED <<pathState, traceLines, harFile, network_requests, basicPc,
                   basicResult, notBasicVars>>

\* `if har_files:` ... self._process_har(har_data); the member's content is an input
ParseHar ==
    /\ basicPc = "lines" /\ linePos = Len(traceLines)
    /\ \E har \in HarFiles :
          /\ harFile' = har
          /\ network_requests' =
                IF har.present THEN network_requests \o ProcessHar(har.data)
                ELSE network_requests
    /\ basicPc' = "parsed"
    /\ UNCHANGED <<pathState, traceLines, linePos, actions, console_logs, errors,
                   basicResult, notBasicVars>>

\* analyze_trace builds the returned mapping from the parsed trace
AnalyzeTraceReturn ==
    /\ basicPc = "parsed"
    /\ basicPc' = "done"
    /\ basicResult' = Some([summary |-> Summary])
    /\ UNCHANGED <<pathState, traceLines, harFile, linePos, actions,
                   network_requests, console_logs, errors, notBasicVars>>

NextBasic ==
    \/ ParseMissing
    \/ ParseDirectory
    \/ ParseBadZip
    \/ ParseOpen
    \/ ParseLine
    \/ ParseHar
    \/ AnalyzeTraceReturn

SpecBasic == InitBasic /\ [][NextBasic]_vars

(***************************************************************************)
(* Claims about the Basic model, checked under SpecBasic.                  *)
(***************************************************************************)
C1Trace ==
    << JsonLine("before-goto", EvBeforeGoto),
       JsonLine("after-goto", EvAfterGoto),
       JsonLine("after-click-error", EvAfterClickError) >>
C1Har == [present |-> TRUE, data |-> [log |-> [entries |-> <<HarEntry200, HarEntry404>>]]]

\* C1: for the archive whose trace.trace holds before(goto), after(goto) and
\* after(click) with an error, and whose trace.har holds entries with status
\* 200 and 404, analyze_trace returns total_actions = 3, failed_actions = 1,
\* total_requests = 2, failed_requests = 1.
C1_SummaryOfSample ==
    (basicPc = "done" /\ traceLines = C1Trace /\ harFile = C1Har) =>
        /\ basicResult[1].summary.total_actions = 3
        /\ basicResult[1].summary.failed_actions = 1
        /\ basicResult[1].summary.total_requests = 2
        /\ basicResult[1].summary.failed_requests = 1

\* an event of type before/after that carries both method and params
IsActionEvent(line) ==
    /\ Strip(line.raw) # "" /\ line.json # None
    /\ Has(line.json[1], "type") /\ line.json[1].type \in {"before", "after"}
    /\ Has(line.json[1], "method") /\ Has(line.json[1], "params")

ActionLines == { i \in 1..linePos : IsActionEvent(traceLines[i]) }
ActionRank(i) == Cardinality({ j \in ActionLines : j <= i })

\* C2: every before/after event with method and params appends exactly one
\* entry of its own to actions, in order (no pairing), and the entry's success
\* is true iff the event's type is `after` and it has no `error` key.
C2_IndependentEntries ==
    /\ Len(actions) = Cardinality(ActionLines)
    /\ \A i \in ActionLines :
          LET event == traceLines[i].json[1]
              entry == actions[ActionRank(i)]
          IN  /\ entry.type = event.method
              /\ entry.params = event.params
              /\ entry.success <=> (event.type = "after" /\ ~ Has(event, "error"))

\* a before and its after were both consumed and gave two entries, the
\* before's unsuccessful and the after's successful
C2_Witness ==
    /\ linePos >= 2 /\ Len(actions) = 2
    /\ traceLines[1].json # None /\ traceLines[1].json[1] = EvBeforeGoto
    /\ ~ actions[1].success /\ actions[2].success

IsMalformed(line) == Strip(line.raw) # "" /\ line.json = None
IsEventOfType(line, type) ==
    /\ Strip(line.raw) # "" /\ line.json # None
    /\ Has(line.json[1], "type") /\ line.json[1].type = type

\* the consumed lines that must leave an entry in errors / in console_logs
ErrorLines ==
    { i \in 1..linePos :
        \/ IsMalformed(traceLines[i])
        \/ IsEventOfType(traceLines[i], "error") /\ Has(traceLines[i].json[1], "error") }
ConsoleLines ==
    { i \in 1..linePos :
        IsEventOfType(traceLines[i], "console") /\ Has(traceLines[i].json[1], "text") }
ErrorRank(i) == Cardinality({ j \in ErrorLines : j <= i })
ConsoleRank(i) == Cardinality({ j \in ConsoleLines : j <= i })
C11Trace == << BadLine, JsonLine("console", EvConsole) >>

\* C11: a non-blank line that is not valid JSON adds exactly one diagnostic
\* "Failed to parse trace event: <line>" at its place in errors and does not
\* abort the parse: the events of the other lines are processed in file order,
\* blank lines add nothing, the parse of an archive reaches the end of the
\* member; a malformed line followed by a console event gives one diagnostic
\* and one console-log entry.
C11_MalformedLineIsolated ==
    /\ Len(errors) = Cardinality(ErrorLines)
    /\ \A i \in ErrorLines : IsMalformed(traceLines[i]) =>
          errors[ErrorRank(i)] = "Failed to parse trace event: " \o traceLines[i].raw
    /\ Len(console_logs) = Cardinality(ConsoleLines)
    /\ \A i \in ConsoleLines : console_logs[ConsoleRank(i)] = traceLines[i].json[1].text
    /\ Len(actions) = Cardinality(ActionLines)
    /\ basicPc = "raised" => pathState # "zip"
    /\ basicPc \in {"parsed", "done"} => linePos = Len(traceLines)
    /\ (basicPc \in {"parsed", "done"} /\ traceLines = C11Trace) =>
          /\ errors = << "Failed to parse trace event: Invalid JSON data" >>
          /\ console_logs = << "Valid event" >>

\* the parse of the malformed line followed by the console event has returned
C11_Witness ==
    /\ basicPc = "done" /\ traceLines = C11Trace
    /\ Len(errors) = 1 /\ Len(console_logs) = 1

HarRead == basicPc \in {"parsed", "done"} /\ harFile.present
HarEntriesRead ==
    IF Has(harFile.data, "log") /\ Has(harFile.data.log, "entries")
    THEN harFile.data.log.entries ELSE << >>
StatusOf(entry) ==
    IF Has(entry, "response") /\ Has(entry.response, "status")
    THEN entry.response.status ELSE 0

\* C12: each item of the HAR log.entries list becomes exactly one
\* NetworkRequest, in order, whose failure flag is true iff the response
\* status is >= 400, an entry without status counting as status 0 (no failure).
C12_OneRequestPerEntry ==
    HarRead =>
        /\ Len(network_requests) = Len(HarEntriesRead)
        /\ \A i \in 1..Len(HarEntriesRead) :
              /\ network_requests[i].failure <=> (StatusOf(HarEntriesRead[i]) >= 400)
              /\ network_requests[i].url = Some(HarEntriesRead[i].request.url)
              /\ network_requests[i].status = None <=>
                    ~ (Has(HarEntriesRead[i], "response") /\ Has(HarEntriesRead[i].response, "status"))

\* a HAR with the boundary status 400 and an entry without status was read
C12_Witness ==
    /\ HarRead /\ HarEntriesRead = << HarEntry400, HarEntryNoStatus >>
    /\ network_requests[1].failure /\ ~ network_requests[2].failure

\* C13: parse raises the not-found error when the path does not exist and
\* the format error "Invalid trace file format" when the path exists but is
\* not a valid archive (a file zipfile rejects, or a directory); in both
\* cases nothing was read and no result is returned.
C13_ParseFailures ==
    /\ pathState = "missing" =>
          /\ basicPc \in {"start", "raised"}
          /\ basicPc = "raised" => basicResult = Some([raised |-> "FileNotFoundError"])
    /\ pathState \in {"notzip", "dir"} =>
          /\ basicPc \in {"start", "raised"}
          /\ basicPc = "raised" =>
                basicResult = Some([raised |-> "ValueError: Invalid trace file format"])
    /\ basicPc = "raised" =>
          /\ linePos = 0 /\ actions = << >> /\ network_requests = << >>
          /\ console_logs = << >> /\ errors = << >>

(***************************************************************************)
(* EnhancedTraceAnalyzer._convert_playwright_trace.                        *)
(*                                                                         *)
(* Events of the general stream (already decoded) and of the network       *)
(* stream.                                                                 *)
(***************************************************************************)
CvBeforeGoto ==
    [type |-> "before", method |-> "goto", params |-> [url |-> "https://example.com"],
     timestamp |-> 0]
CvBeforeClick ==
    [type |-> "before", method |-> "click", params |-> [selector |-> "#submit"],
     timestamp |-> 120]
CvBeforeBare == [type |-> "before"]
CvAfter == [type |-> "after", timestamp |-> 100]
CvAfterError ==
    [type |-> "after", timestamp |-> 250, error |-> [message |-> "Element not found"]]
CvAfterErrorFull ==
    [type |-> "after", method |-> "click",
     error |-> [name |-> "TimeoutError", message |-> "Timeout 30000ms exceeded",
                stack |-> "at click"]]
CvViewport ==
    [type |-> "event", method |-> "setViewportSize", sessionId |-> "s1", timestamp |-> 5,
     params |-> [viewport |-> [width |-> 1280, height |-> 720]]]

ConvertEvents ==
    { CvBeforeGoto, CvBeforeClick, CvBeforeBare, CvAfter, CvAfterError,
      CvAfterErrorFull, CvViewport }

NetResponse200 ==
    [method |-> "Network.responseReceived",
     params |-> [url |-> "https://example.com", method |-> "GET", status |-> 200]]
NetResponse404 ==
    [method |-> "Network.responseReceived",
     params |-> [url |-> "https://example.com/missing", method |-> "GET", status |-> 404,
                 timing |-> 30]]
NetRequestSent ==
    [method |-> "Network.requestWillBeSent", params |-> [url |-> "https://example.com"]]
NetworkEvents == { NetResponse200, NetResponse404, NetRequestSent }

\* event.get('type'), event.get('method'): "None" stands for a missing key
TypeOf(event) == Get(event, "type", "None")
MethodOf(event) == Get(event, "method", "None")

\* next(... for e in events if e.get('method') == m): index of the first one, or 0
FirstWithMethod(events, m) ==
    LET I == { i \in 1..Len(events) : MethodOf(events[i]) = m }
    IN  IF I = {} THEN 0 ELSE CHOOSE i \in I : \A j \in I : i <= j

DefaultViewport == [width |-> 0, height |-> 0]

\* the metadata mapping; trace_events[0] exists (else IndexError, see ConvertEmpty)
Metadata(events) ==
    LET vp == FirstWithMethod(events, "setViewportSize")
        ua == FirstWithMethod(events, "setUserAgent")
    IN  [session_id |-> Get(events[1], "sessionId", "unknown"),
         timestamp |-> Get(events[1], "timestamp", 0),
         browser_info |->
             [viewport |-> IF vp = 0 THEN Some(DefaultViewport)
                           ELSE GetOpt(Get(events[vp], "params", EmptyDict), "viewport"),
              user_agent |-> IF ua = 0 THEN Some("unknown")
                             ELSE GetOpt(Get(events[ua], "params", EmptyDict), "userAgent")]]

\* variant: zero-based numbering
NextStepIdZeroBased(pushed) == Len(pushed)

\* "step_id": len(steps) + 1
NextStepId(pushed) == Len(pushed) + 1

\* the step a `before` event opens
NewStep(event, pushed, viewport) ==
    [step_id |-> NextStepId(pushed),
     action |-> Get(event, "method", "unknown"),
     target |-> Get(Get(event, "params", EmptyDict), "selector", ""),
     timing |-> [start |-> Get(event, "timestamp", 0), end |-> None, duration |-> None],
     status |-> "pending",
     error_context |-> None,
     visual_state |-> [screenshot_diffs |-> EmptyDict, element_visibility |-> EmptyDict,
                       layout_shifts |-> << >>],
     action_context |-> [element_state |-> Get(event, "params", EmptyDict),
                         viewport_state |-> viewport]]

\* the error_context an `after` event with an `error` key gives
ErrorContext(error) ==
    [error_type |-> Get(error, "name", "unknown"),
     message |-> Get(error, "message", ""),
     stack |-> Get(error, "stack", "")]

\* 'error' if 'error' in event else 'success'
AfterStatus(event) == IF Has(event, "error") THEN "error" ELSE "success"

\* variant: the duration is the end itself
AfterDurationNoStart(step, end) == end

\* current_step['timing']['end'] - current_step['timing']['start']
AfterDuration(step, end) == end - step.timing.start

\* variant: an `after` without an `error` key clears the error_context
CloseStepClearsContext(step, event) ==
    LET end == Get(event, "timestamp", 0)
    IN  [step EXCEPT !.timing.end = Some(end),
                     !.timing.duration = Some(AfterDuration(step, end)),
                     !.status = AfterStatus(event),
                     !.error_context = IF Has(event, "error")
                                       THEN Some(ErrorContext(event.error)) ELSE None]

\* the current step after an `after` event
CloseStep(step, event) ==
    LET end == Get(event, "timestamp", 0)
    IN  [step EXCEPT !.timing.end = Some(end),
                     !.timing.duration = Some(AfterDuration(step, end)),
                     !.status = AfterStatus(event),
                     !.error_context = IF Has(event, "error")
                                       THEN Some(ErrorContext(event.error)) ELSE @]

\* variant: a step that never got an `after` is dropped instead of pushed
PushOpenDropPending(pushed, current) ==
    IF current # None /\ current[1].status # "pending"
    THEN Append(pushed, current[1]) ELSE pushed

\* `if current_step: steps.append(current_step)`
PushOpen(pushed, current) ==
    IF current # None THEN Append(pushed, current[1]) ELSE pushed

\* the loop body: st is [steps, current_step]
OnBefore(st, event, viewport) ==
    LET pushed == PushOpen(st.steps, st.current_step)
    IN  [steps |-> pushed, current_step |-> Some(NewStep(event, pushed, viewport))]

\* variant: only the first `after` of a step is applied
OnAfterOnce(st, event) ==
    IF st.current_step[1].status = "pending"
    THEN [st EXCEPT !.current_step = Some(CloseStep(@[1], event))]
    ELSE st

\* lines 250-261: the `after` branch; current_step stays set
OnAfter(st, event) == [st EXCEPT !.current_step = Some(CloseStep(@[1], event))]

\* variant: every event that is not an `after` opens a step
OnEventOpensOnAny(st, event, viewport) ==
    IF TypeOf(event) # "after" THEN OnBefore(st, event, viewport)
    ELSE IF st.current_step # None THEN OnAfter(st, event)
    ELSE st

\* lines 225-261: one iteration of the loop
OnEvent(st, event, viewport) ==
    IF TypeOf(event) = "before" THEN OnBefore(st, event, viewport)
    ELSE IF TypeOf(event) = "after" /\ st.current_step # None THEN OnAfter(st, event)
    ELSE st

IsResponse(event) == MethodOf(event) = "Network.responseReceived"

RequestOf(event) ==
    LET params == Get(event, "params", EmptyDict)
    IN  [url |-> GetOpt(params, "url"), method |-> GetOpt(params, "method"),
         status |-> GetOpt(params, "status"), timing |-> GetOpt(params, "timing")]

NetworkInfo(net) ==
    LET responses == SelectSeq(net, IsResponse)
    IN  [requests |-> [i \in 1..Len(responses) |-> RequestOf(responses[i])]]

RECURSIVE SumKnownDurations(_)
SumKnownDurations(ss) ==
    IF ss = << >> THEN 0
    ELSE (IF Head(ss).timing.duration # None THEN Head(ss).timing.duration[1] ELSE 0)
         + SumKnownDurations(Tail(ss))

\* a / b of Python, kept as the exact fraction
Ratio(a, b) == [num |-> a, den |-> b]

FirstInteraction(events) ==
    LET I == { i \in 1..Len(events) :
                 TypeOf(events[i]) = "before" /\ MethodOf(events[i]) \in {"click", "fill"} }
    IN  IF I = {} THEN 0
        ELSE Get(events[CHOOSE i \in I : \A j \in I : i <= j], "timestamp", 0)

TimestampOfFirst(events, m) ==
    IF FirstWithMethod(events, m) = 0 THEN 0
    ELSE Get(events[FirstWithMethod(events, m)], "timestamp", 0)

Performance(events, ss) ==
    [navigation_timing |->
         [dom_complete |-> TimestampOfFirst(events, "domcontentloaded"),
          load_complete |-> TimestampOfFirst(events, "load")],
     interaction_timing |->
         [time_to_first_interaction |-> FirstInteraction(events) - Metadata(events).timestamp,
          action_latency |-> IF ss # << >> THEN Ratio(SumKnownDurations(ss), Len(ss))
                             ELSE Ratio(0, 1)]]

\* the returned mapping
TraceDocument(events, ss, net) ==
    [metadata |-> Metadata(events),
     steps |-> ss,
     network |-> NetworkInfo(net),
     performance |-> Performance(events, ss)]

(***************************************************************************)
(* EnhancedTraceAnalyzer.analyze_failures over a loaded document.          *)
(***************************************************************************)
\* variant: every step that is not a success counts as failed
IsErrorStepNotSuccess(step) == step.status # "success"

IsErrorStep(step) == step.status = "error"

AnalyzeFailures(doc) ==
    LET failed_steps == SelectSeq(doc.steps, IsErrorStep)
    IN  [failed_steps |->
             [i \in 1..Len(failed_steps) |->
                 [step_id |-> failed_steps[i].step_id,
                  action |-> failed_steps[i].action,
                  error |-> failed_steps[i].error_context,
                  recovery_attempts |->
                      Get(failed_steps[i].action_context.element_state,
                          "recovery_attempts", << >>)]],
         total_steps |-> Len(doc.steps),
         failed_steps_count |-> Len(failed_steps)]

(***************************************************************************)
(* The other projections.  A call either returns a mapping or raises:      *)
(* Returns(v) / Raises(e).                                                 *)
(***************************************************************************)
Returns(v) == [ok |-> TRUE, value |-> v]
Raises(e) == [ok |-> FALSE, raised |-> e]

RECURSIVE SumSeq(_)
SumSeq(ns) == IF ns = << >> THEN 0 ELSE Head(ns) + SumSeq(Tail(ns))

ElementState(step) == step.action_context.element_state
HasDuration(step) == step.timing.duration # None
KnownDurations(doc) ==
    LET known == SelectSeq(doc.steps, HasDuration)
    IN  [i \in 1..Len(known) |-> known[i].timing.duration[1]]

AnalyzeActionContext(doc) ==
    Returns([steps |->
        [i \in 1..Len(doc.steps) |->
            [step_id |-> doc.steps[i].step_id,
             action |-> doc.steps[i].action,
             target |-> doc.steps[i].target,
             element_state |-> ElementState(doc.steps[i]),
             viewport_state |-> doc.steps[i].action_context.viewport_state]]])

AnalyzeDecisionTrail(doc) ==
    Returns([steps |->
        [i \in 1..Len(doc.steps) |->
            [step_id |-> doc.steps[i].step_id,
             action |-> doc.steps[i].action,
             confidence |-> Get(ElementState(doc.steps[i]), "confidence", 1),
             alternatives |-> Get(ElementState(doc.steps[i]), "alternatives", << >>),
             reasoning |-> Get(ElementState(doc.steps[i]), "reasoning", << >>)]]])

AnalyzeElementIdentification(doc) ==
    Returns([steps |->
        [i \in 1..Len(doc.steps) |->
            [step_id |-> doc.steps[i].step_id,
             target |-> doc.steps[i].target,
             selector |-> Get(ElementState(doc.steps[i]), "selector", ""),
             position |-> Get(ElementState(doc.steps[i]), "position", EmptyDict),
             relationships |-> Get(ElementState(doc.steps[i]), "relationships", EmptyDict)]]])

AnalyzeSessionContext(doc) ==
    [metadata |-> doc.metadata, network |-> doc.network, performance |-> doc.performance]

\* variant: every step with recovery attempts, whatever its status
IsRecoveryStepAnyStatus(step) ==
    Get(ElementState(step), "recovery_attempts", << >>) # << >>

\* a step with status error and a non-empty recovery_attempts list
IsRecoveryStep(step) ==
    IsErrorStep(step) /\ Get(ElementState(step), "recovery_attempts", << >>) # << >>

AnalyzeRecoveryInfo(doc) ==
    LET recovery_steps == SelectSeq(doc.steps, IsRecoveryStep)
    IN  Returns([recovery_steps |->
            [i \in 1..Len(recovery_steps) |->
                LET attempts == ElementState(recovery_steps[i]).recovery_attempts
                IN  [step_id |-> recovery_steps[i].step_id,
                     action |-> recovery_steps[i].action,
                     recovery_attempts |-> attempts,
                     final_status |->
                         IF \E k \in 1..Len(attempts) : Get(attempts[k], "success", FALSE)
                         THEN "recovered" ELSE "failed"]]])

AnalyzeModelData(doc) ==
    Returns([steps |->
        [i \in 1..Len(doc.steps) |->
            [step_id |-> doc.steps[i].step_id,
             action |-> doc.steps[i].action,
             model_info |-> Get(ElementState(doc.steps[i]), "model_info", EmptyDict),
             vision_analysis |-> Get(ElementState(doc.steps[i]), "vision_analysis", EmptyDict)]]])

AnalyzeTemporalContext(doc) ==
    Returns([steps |->
        [i \in 1..Len(doc.steps) |->
            [step_id |-> doc.steps[i].step_id,
             timing |-> doc.steps[i].timing,
             wait_conditions |-> Get(ElementState(doc.steps[i]), "wait_conditions", << >>)]],
             total_duration |-> SumSeq(KnownDurations(doc))])

AnalyzeElementReporting(doc) ==
    Returns([steps |->
        [i \in 1..Len(doc.steps) |->
            [step_id |-> doc.steps[i].step_id,
             action |-> doc.steps[i].action,
             target |-> doc.steps[i].target,
             element_state |-> ElementState(doc.steps[i]),
             status |-> doc.steps[i].status]]])

\* any(req["status"] >= 400 for req in requests), evaluated in list order:
\* "True", "False", or "TypeError" when a request without status is compared
\* before any request with status >= 400 was met
RECURSIVE NetworkStatus(_)
NetworkStatus(requests) ==
    IF requests = << >> THEN "False"
    ELSE IF Head(requests).status = None THEN "TypeError"
    ELSE IF Head(requests).status[1] >= 400 THEN "True"
    ELSE NetworkStatus(Tail(requests))

AnalyzeErrorContext(doc) ==
    LET error_steps == SelectSeq(doc.steps, IsErrorStep)
        network_status == NetworkStatus(doc.network.requests)
    IN  IF error_steps # << >> /\ network_status = "TypeError"
        THEN Raises("TypeError")
        ELSE Returns([error_steps |->
                [i \in 1..Len(error_steps) |->
                    [step_id |-> error_steps[i].step_id,
                     action |-> error_steps[i].action,
                     error_context |-> error_steps[i].error_context,
                     session_state |->
                         [url |-> GetOpt(doc.metadata.browser_info, "url"),
                          viewport |-> doc.metadata.browser_info.viewport,
                          network_status |-> (network_status = "True")]]]])

\* sum(durations) / len(durations)
AverageStepDuration(durations) ==
    IF Len(durations) = 0 THEN Raises("ZeroDivisionError")
    ELSE Returns(Ratio(SumSeq(durations), Len(durations)))

AnalyzeTiming(doc) ==
    LET timed == SelectSeq(doc.steps, HasDuration)
        average == AverageStepDuration(KnownDurations(doc))
    IN  IF ~ average.ok THEN average
        ELSE Returns(
            [steps |->
                [i \in 1..Len(timed) |->
                    [step_id |-> timed[i].step_id,
                     action |-> timed[i].action,
                     timing |-> timed[i].timing]],
             performance |-> doc.performance,
             summary |-> [total_duration |-> SumSeq(KnownDurations(doc)),
                          average_step_duration |-> average.value]])

AnalyzeVisualState(doc) ==
    LET visual_analysis ==
            [i \in 1..Len(doc.steps) |->
                LET visual_state == doc.steps[i].visual_state
                    diffs == Get(visual_state, "screenshot_diffs", EmptyDict)
                    visibility == Get(visual_state, "element_visibility", EmptyDict)
                IN  [step_id |-> doc.steps[i].step_id,
                     before_action |->
                         [screenshot |-> GetOpt(diffs, "before"),
                          visible_elements |-> Get(visibility, "before", << >>)],
                     after_action |->
                         [screenshot |-> GetOpt(diffs, "after"),
                          visible_elements |-> Get(visibility, "after", << >>),
                          added_elements |-> Get(visibility, "added", << >>),
                          removed_elements |-> Get(visibility, "removed", << >>)],
                     layout_shifts |-> Get(visual_state, "layout_shifts", << >>)]]
    IN  Returns(
            [visual_changes |-> visual_analysis,
             cumulative_layout_shift |->
                 SumSeq([i \in 1..Len(visual_analysis) |->
                     SumSeq([j \in 1..Len(visual_analysis[i].layout_shifts) |->
                         Get(visual_analysis[i].layout_shifts[j],
                             "cumulative_layout_shift", 0)])])])

\* an entry of recovery_analysis with a recovery attempt whose outcome is success
Recovered(entry) ==
    \E k \in 1..Len(entry.recovery_attempts) : entry.recovery_attempts[k].outcome = "success"

\* variant: no failure counts as nothing recovered
RecoverySuccessRateZero(recovery_analysis) ==
    IF recovery_analysis = << >> THEN Ratio(0, 1)
    ELSE Ratio(Len(SelectSeq(recovery_analysis, Recovered)), Len(recovery_analysis))

\* len([r for r in recovery_analysis if any(...)]) / len(recovery_analysis)
\*     if recovery_analysis else 1.0
RecoverySuccessRate(recovery_analysis) ==
    IF recovery_analysis = << >> THEN Ratio(1, 1)
    ELSE Ratio(Len(SelectSeq(recovery_analysis, Recovered)), Len(recovery_analysis))

AnalyzeErrorRecovery(doc) ==
    LET error_steps == SelectSeq(doc.steps, IsErrorStep)
    IN  IF \E i \in 1..Len(error_steps) : error_steps[i].error_context = None
        THEN Raises("AttributeError")
        ELSE LET recovery_analysis ==
                     [i \in 1..Len(error_steps) |->
                         LET error_ctx == error_steps[i].error_context[1]
                             target_element == Get(error_ctx, "target_element", EmptyDict)
                         IN  [step_id |-> error_steps[i].step_id,
                              error_type |-> Get(error_ctx, "error_type", "unknown"),
                              target_element |->
                                  [selector |-> GetOpt(target_element, "selector"),
                                   visible_similar_elements |->
                                       Get(target_element, "visible_similar_elements", << >>)],
                              recovery_attempts |-> Get(error_ctx, "recovery_attempts", << >>),
                              environment_factors |->
                                  Get(error_ctx, "environment_factors", EmptyDict)]]
             IN  Returns([error_steps |-> recovery_analysis,
                          recovery_success_rate |-> RecoverySuccessRate(recovery_analysis)])

\* sum(step.get("timing", {}).get("duration", 0) for step in steps): the key
\* duration is always there, and None + int is a TypeError
AnalyzePerformance(doc) ==
    IF \E i \in 1..Len(doc.steps) : ~ HasDuration(doc.steps[i])
    THEN Raises("TypeError")
    ELSE Returns(
        [navigation_timing |-> Get(doc.performance, "navigation_timing", EmptyDict),
         interaction_timing |-> Get(doc.performance, "interaction_timing", EmptyDict),
         metrics_summary |->
             [avg_action_latency |->
                  Get(Get(doc.performance, "interaction_timing", EmptyDict),
                      "action_latency", 0),
              total_interaction_time |-> SumSeq(KnownDurations(doc))]])

\* analyze_all: the fourteen projections are awaited in this order and the
\* first one that raises ends the call
AllParts(doc) ==
    << [key |-> "action_context", out |-> AnalyzeActionContext(doc)],
       [key |-> "decision_trail", out |-> AnalyzeDecisionTrail(doc)],
       [key |-> "element_identification", out |-> AnalyzeElementIdentification(doc)],
       [key |-> "failure_analysis", out |-> Returns(AnalyzeFailures(doc))],
       [key |-> "session_context", out |-> Returns(AnalyzeSessionContext(doc))],
       [key |-> "recovery_info", out |-> AnalyzeRecoveryInfo(doc)],
       [key |-> "model_data", out |-> AnalyzeModelData(doc)],
       [key |-> "temporal_context", out |-> AnalyzeTemporalContext(doc)],
       [key |-> "element_reporting", out |-> AnalyzeElementReporting(doc)],
       [key |-> "error_context", out |-> AnalyzeErrorContext(doc)],
       [key |-> "timing_analysis", out |-> AnalyzeTiming(doc)],
       [key |-> "visual_state", out |-> AnalyzeVisualState(doc)],
       [key |-> "error_recovery", out |-> AnalyzeErrorRecovery(doc)],
       [key |-> "performance", out |-> AnalyzePerformance(doc)] >>

AnalyzeAll(doc) ==
    LET parts == AllParts(doc)
        failing == { i \in 1..Len(parts) : ~ parts[i].out.ok }
    IN  IF failing # {}
        THEN parts[CHOOSE i \in failing : \A j \in failing : i <= j].out
        ELSE Returns([key \in { parts[i].key : i \in 1..Len(parts) } |->
                         parts[CHOOSE i \in 1..Len(parts) : parts[i].key = key].out.value])

ProjectionNames ==
    { "analyze_action_context", "analyze_decision_trail", "analyze_element_identification",
      "analyze_session_context", "analyze_recovery_info", "analyze_model_data",
      "analyze_temporal_context", "analyze_element_reporting", "analyze_error_context",
      "analyze_timing", "analyze_visual_state", "analyze_error_recovery",
      "analyze_performance", "analyze_all" }

ProjectionOutcome(name, doc) ==
    CASE name = "analyze_action_context" -> AnalyzeActionContext(doc)
      [] name = "analyze_decision_trail" -> AnalyzeDecisionTrail(doc)
      [] name = "analyze_element_identification" -> AnalyzeElementIdentification(doc)
      [] name = "analyze_session_context" -> Returns(AnalyzeSessionContext(doc))
      [] name = "analyze_recovery_info" -> AnalyzeRecoveryInfo(doc)
      [] name = "analyze_model_data" -> AnalyzeModelData(doc)
      [] name = "analyze_temporal_context" -> AnalyzeTemporalContext(doc)
      [] name = "analyze_element_reporting" -> AnalyzeElementReporting(doc)
      [] name = "analyze_error_context" -> AnalyzeErrorContext(doc)
      [] name = "analyze_timing" -> AnalyzeTiming(doc)
      [] name = "analyze_visual_state" -> AnalyzeVisualState(doc)
      [] name = "analyze_error_recovery" -> AnalyzeErrorRecovery(doc)
      [] name = "analyze_performance" -> AnalyzePerformance(doc)
      [] name = "analyze_all" -> AnalyzeAll(doc)

(***************************************************************************)
(* _convert_playwright_trace as a state machine: one action per iteration  *)
(* of the step loop, then the return; then one analyze_failures call on    *)
(* the document.                                                           *)
(***************************************************************************)
InitConvert ==
    /\ BasicIdle /\ LoadIdle /\ BrowserIdle /\ UtilsIdle
    /\ trace_events \in SeqsUpTo(ConvertEvents, MaxEvents)
    /\ eventPos = 0 /\ steps = << >> /\ current_step = None
    /\ convertPc = "metadata"
    /\ network_events = << >> /\ convertResult = None /\ failuresResult = None
    /\ analysisLog = << >>

Viewport == Metadata(trace_events).browser_info.viewport

\* trace_events[0] of an empty list: IndexError
ConvertEmpty ==
    /\ convertPc = "metadata" /\ trace_events = << >>
    /\ convertPc' = "raised"
    /\ convertResult' = Some([raised |-> "IndexError: list index out of range"])
    /\ UNCHANGED <<notConvertVars, trace_events, eventPos, steps, current_step,
                   network_events, failuresResult, analysisLog>>

ConvertMetadata ==
    /\ convertPc = "metadata" /\ trace_events # << >>
    /\ convertPc' = "loop"
    /\ UNCHANGED <<notConvertVars, trace_events, eventPos, steps, current_step,
                   network_events, convertResult, failuresResult, analysisLog>>

LoopStep(event) ==
    LET st == OnEvent([steps |-> steps, current_step |-> current_step], event, Viewport)
    IN  /\ steps' = st.steps
        /\ current_step' = st.current_step
        /\ eventPos' = eventPos + 1
        /\ UNCHANGED <<notConvertVars, trace_events, convertPc, network_events,
                       convertResult, failuresResult, analysisLog>>

LoopBefore ==
    /\ convertPc = "loop" /\ eventPos < Len(trace_events)
    /\ TypeOf(trace_events[eventPos + 1]) = "before"
    /\ LoopStep(trace_events[eventPos + 1])

LoopAfter ==
    /\ convertPc = "loop" /\ eventPos < Len(trace_events)
    /\ TypeOf(trace_events[eventPos + 1]) = "after" /\ current_step # None
    /\ LoopStep(trace_events[eventPos + 1])

\* any other event, and an `after` while current_step is None
LoopOther ==
    /\ convertPc = "loop" /\ eventPos < Len(trace_events)
    /\ TypeOf(trace_events[eventPos + 1]) # "before"
    /\ ~ (TypeOf(trace_events[eventPos + 1]) = "after" /\ current_step # None)
    /\ LoopStep(trace_events[eventPos + 1])

\* after the loop: push the open step, build and return the mapping
ConvertReturn ==
    /\ convertPc = "loop" /\ eventPos = Len(trace_events)
    /\ \E net \in SeqsUpTo(NetworkEvents, MaxEvents - Len(trace_events)) :
          /\ network_events' = net
          /\ steps' = PushOpen(steps, current_step)
          /\ convertResult' = Some(TraceDocument(trace_events, steps', net))
    /\ convertPc' = "done"
    /\ UNCHANGED <<notConvertVars, trace_events, eventPos, current_step, failuresResult,
                   analysisLog>>

CallAnalyzeFailures ==
    /\ convertPc = "done"
    /\ failuresResult' = Some(AnalyzeFailures(convertResult[1]))
    /\ convertPc' = "analyzed"
    /\ UNCHANGED <<notConvertVars, trace_events, eventPos, steps, current_step,
                   network_events, convertResult, analysisLog>>

\* a projection leaves the mapping it was given as it is: no analyze_* assigns
\* into trace_data or into a step
\* variant: analyze_timing filters the steps of the cached mapping in place
DocumentAfterTimingFilters(name, doc) ==
    IF name = "analyze_timing" THEN [doc EXCEPT !.steps = SelectSeq(@, HasDuration)]
    ELSE doc

DocumentAfter(name, doc) == doc

\* how many projections have been called on the document
ProjectionCalls == IF analysisLog = << >> THEN 0 ELSE analysisLog[1].nth

\* one analytical call on the document and what it leaves of it
CallProjection(name) ==
    /\ convertPc \in {"done", "analyzed"} /\ ProjectionCalls < MaxProjectionCalls
    /\ analysisLog' = << [nth |-> ProjectionCalls + 1, name |-> name,
                          out |-> ProjectionOutcome(name, convertResult[1])] >>
    /\ convertResult' = Some(DocumentAfter(name, convertResult[1]))
    /\ UNCHANGED <<notConvertVars, trace_events, eventPos, steps, current_step,
                   convertPc, network_events, failuresResult>>

NextConvert ==
    \/ ConvertEmpty
    \/ ConvertMetadata
    \/ LoopBefore
    \/ LoopAfter
    \/ LoopOther
    \/ ConvertReturn
    \/ CallAnalyzeFailures
    \/ \E name \in ProjectionNames : CallProjection(name)

SpecConvert == InitConvert /\ [][NextConvert]_vars

(***************************************************************************)
(* Claims about the step construction, checked under SpecConvert.          *)
(***************************************************************************)
ConvertReturned == convertPc \in {"done", "analyzed"}
DocSteps == convertResult[1].steps

\* the `before` events of the stream; the k-th of them opens step k
BeforeIdx == { i \in 1..Len(trace_events) : TypeOf(trace_events[i]) = "before" }
StepNo(i) == Cardinality({ j \in BeforeIdx : j <= i })

\* the `after` events the step opened at i received: those up to the next `before`
AftersOf(i) ==
    { j \in (i + 1)..Len(trace_events) :
        /\ TypeOf(trace_events[j]) = "after"
        /\ \A k \in (i + 1)..j : TypeOf(trace_events[k]) # "before" }
FirstAfter(i) == CHOOSE j \in AftersOf(i) : \A k \in AftersOf(i) : j <= k
LastAfter(i) == CHOOSE j \in AftersOf(i) : \A k \in AftersOf(i) : k <= j

\* the step opened at i carries the end, duration and status of the `after` at j
ClosedAs(i, j) ==
    /\ StepNo(i) \in DOMAIN DocSteps
    /\ LET step == DocSteps[StepNo(i)]
           event == trace_events[j]
       IN  /\ step.timing.end = Some(Get(event, "timestamp", 0))
           /\ step.timing.duration = Some(step.timing.end[1] - step.timing.start)
           /\ step.timing.start = Get(trace_events[i], "timestamp", 0)
           /\ step.status = (IF Has(event, "error") THEN "error" ELSE "success")

C3Example ==
    trace_events = <<CvBeforeGoto, CvAfter>> =>
        /\ Len(DocSteps) = 1
        /\ DocSteps[1].timing.duration = Some(100)
        /\ DocSteps[1].status = "success"

\* C3 as stated: every step that received an `after` event has timing.end
\* equal to that event's timestamp, duration = end - start and the status that
\* event gives (error with an `error` key, success without); [before(goto, 0),
\* after(100)] yields one step with duration 100 and status success.
C3_EveryReceivedAfter ==
    ConvertReturned =>
        /\ \A i \in BeforeIdx : \A j \in AftersOf(i) : ClosedAs(i, j)
        /\ C3Example

\* C3 as amended: the step carries the end, duration and status of the LAST
\* `after` event it received before the next `before` (or the end of the
\* stream); each later `after` overwrites what an earlier one set.
C3_LastReceivedAfter ==
    ConvertReturned =>
        /\ \A i \in BeforeIdx : AftersOf(i) # {} => ClosedAs(i, LastAfter(i))
        /\ C3Example

\* a step that received two `after` events and carries the second one's values
C3_Witness ==
    /\ ConvertReturned
    /\ trace_events = <<CvBeforeClick, CvAfter, CvAfterError>>
    /\ DocSteps[1].timing.end = Some(250)
    /\ DocSteps[1].timing.duration = Some(130)
    /\ DocSteps[1].status = "error"

\* C4: a `before` that receives no `after` before the next `before` or the end
\* of the stream is in the output steps, at the position of its creation, with
\* timing.end and timing.duration null and status pending.
C4_OrphanStepKept ==
    ConvertReturned =>
        \A i \in BeforeIdx : AftersOf(i) = {} =>
            /\ StepNo(i) \in DOMAIN DocSteps
            /\ LET step == DocSteps[StepNo(i)]
               IN  /\ step.action = Get(trace_events[i], "method", "unknown")
                   /\ step.timing.start = Get(trace_events[i], "timestamp", 0)
                   /\ step.timing.end = None
                   /\ step.timing.duration = None
                   /\ step.status = "pending"

\* a `before` followed directly by another `before`, which ends the stream
C4_Witness ==
    /\ ConvertReturned
    /\ trace_events = <<CvBeforeGoto, CvBeforeClick>>
    /\ Len(DocSteps) = 2
    /\ DocSteps[1].status = "pending" /\ DocSteps[2].status = "pending"

\* every step created so far, in creation order: the pushed ones, then the open one
AllSteps ==
    IF convertPc = "loop" /\ current_step # None
    THEN Append(steps, current_step[1]) ELSE steps

StepIdsAreIndexes ==
    /\ \A i \in DOMAIN AllSteps : AllSteps[i].step_id = i
    /\ ConvertReturned => \A i \in DOMAIN DocSteps : DocSteps[i].step_id = i

StepIdsKept ==
    \A i \in DOMAIN AllSteps :
        i \in DOMAIN AllSteps' /\ AllSteps'[i].step_id = AllSteps[i].step_id

\* C5: the step at position i (1-based) has step_id = i, whatever the mix of
\* events, in the loop and in the returned document, and no step of the loop
\* changes the step_id of a step that exists.
C5_StepIdsByCreationOrder == [] StepIdsAreIndexes /\ [][StepIdsKept]_vars

\* two steps numbered 1 and 2 from a stream that mixes before and after
C5_Witness ==
    /\ ConvertReturned
    /\ trace_events = <<CvBeforeGoto, CvAfter, CvBeforeClick>>
    /\ Len(DocSteps) = 2
    /\ DocSteps[1].step_id = 1 /\ DocSteps[2].step_id = 2

\* the error_context the `after` event at j gives the step opened at i
ErrorStepAs(i, j) ==
    /\ StepNo(i) \in DOMAIN DocSteps
    /\ LET step == DocSteps[StepNo(i)]
           error == trace_events[j].error
       IN  /\ step.status = "error"
           /\ step.error_context =
                 Some([error_type |-> IF Has(error, "name") THEN error.name ELSE "unknown",
                       message |-> IF Has(error, "message") THEN error.message ELSE "",
                       stack |-> IF Has(error, "stack") THEN error.stack ELSE ""])

ErrorStepIds == { i \in DOMAIN DocSteps : DocSteps[i].status = "error" }

\* analyze_failures lists exactly the steps whose status is error, in order
FailuresListErrorSteps ==
    LET listed == failuresResult[1].failed_steps
    IN  /\ { listed[k].step_id : k \in DOMAIN listed } = ErrorStepIds
        /\ Len(listed) = Cardinality(ErrorStepIds)
        /\ \A k \in DOMAIN listed : \A m \in DOMAIN listed :
              k < m => listed[k].step_id < listed[m].step_id
        /\ \A k \in DOMAIN listed :
              listed[k].error = DocSteps[listed[k].step_id].error_context
        /\ failuresResult[1].failed_steps_count = Len(listed)
        /\ failuresResult[1].total_steps = Len(DocSteps)
        /\ failuresResult[1].failed_steps_count <= failuresResult[1].total_steps

\* C6 as stated: a step closed by an `after` event that carries an `error` key
\* (the next `after` after its `before`) has status error and the error_context
\* of that event; analyze_failures lists exactly the steps with status error,
\* failed_steps_count is the length of the list and at most total_steps.
C6_ClosedByNextAfter ==
    convertPc = "analyzed" =>
        /\ \A i \in BeforeIdx :
              (AftersOf(i) # {} /\ Has(trace_events[FirstAfter(i)], "error"))
                  => ErrorStepAs(i, FirstAfter(i))
        /\ FailuresListErrorSteps

\* C6 as amended: the step whose LAST received `after` event carries an `error`
\* key has status error and that event's error_context; the rest as stated.
C6_ClosedByLastAfter ==
    convertPc = "analyzed" =>
        /\ \A i \in BeforeIdx :
              (AftersOf(i) # {} /\ Has(trace_events[LastAfter(i)], "error"))
                  => ErrorStepAs(i, LastAfter(i))
        /\ FailuresListErrorSteps

\* one failed step out of two, listed by analyze_failures with its context
C6_Witness ==
    /\ convertPc = "analyzed"
    /\ trace_events = <<CvBeforeGoto, CvAfterError, CvBeforeClick>>
    /\ failuresResult[1].failed_steps_count = 1
    /\ failuresResult[1].total_steps = 2
    /\ failuresResult[1].failed_steps[1].error =
          Some([error_type |-> "unknown", message |-> "Element not found", stack |-> ""])

\* the error_context the `after` at j gives, None without an `error` key
ContextGiven(j) ==
    IF Has(trace_events[j], "error")
    THEN LET error == trace_events[j].error IN
         Some([error_type |-> IF Has(error, "name") THEN error.name ELSE "unknown",
               message |-> IF Has(error, "message") THEN error.message ELSE "",
               stack |-> IF Has(error, "stack") THEN error.stack ELSE ""])
    ELSE None

ErrorAftersOf(i) == { j \in AftersOf(i) : Has(trace_events[j], "error") }
LastErrorAfter(i) == CHOOSE j \in ErrorAftersOf(i) : \A k \in ErrorAftersOf(i) : k <= j

OneStepPerBefore == Len(DocSteps) = Cardinality(BeforeIdx)

\* C30 as stated: each `before` opens exactly one step and the first
\* following `after` closes it; a further `after` before the next `before`
\* leaves its timing.end, timing.duration, status and error_context as the
\* first one set them.
C30_FirstAfterCloses ==
    ConvertReturned =>
        /\ OneStepPerBefore
        /\ \A i \in BeforeIdx : AftersOf(i) # {} =>
               /\ ClosedAs(i, FirstAfter(i))
               /\ DocSteps[StepNo(i)].error_context = ContextGiven(FirstAfter(i))

\* C30 as amended: each `before` opens exactly one step, which stays the
\* current one until the next `before`: every `after` in between sets
\* timing.end, timing.duration and status anew, so the step carries those of
\* the last one, and its error_context is that of the last `after` with an
\* `error` key (None when there was none).
C30_EveryAfterApplied ==
    ConvertReturned =>
        /\ OneStepPerBefore
        /\ \A i \in BeforeIdx : AftersOf(i) # {} =>
               /\ ClosedAs(i, LastAfter(i))
               /\ DocSteps[StepNo(i)].error_context =
                      (IF ErrorAftersOf(i) = {} THEN None ELSE ContextGiven(LastErrorAfter(i)))

\* a step whose second `after` reset end, duration and status, while the
\* error_context of the first one stayed
C30_Witness ==
    /\ ConvertReturned
    /\ trace_events = <<CvBeforeClick, CvAfterError, CvAfter>>
    /\ Len(DocSteps) = 1
    /\ DocSteps[1].timing.end = Some(100)
    /\ DocSteps[1].timing.duration = Some(-20)
    /\ DocSteps[1].status = "success"
    /\ DocSteps[1].error_context =
          Some([error_type |-> "unknown", message |-> "Element not found", stack |-> ""])

\* the durations of the steps that have one
StepsWithDuration == { n \in DOMAIN DocSteps : HasDuration(DocSteps[n]) }
SumOfDurations == SumKnownDurations(DocSteps)
ActionLatency == convertResult[1].performance.interaction_timing.action_latency

\* the fraction r has the value a / b
RatioIs(r, a, b) == r.den # 0 /\ b # 0 /\ r.num * b = a * r.den

\* C31: action_latency is the sum of the known step durations divided by the
\* number of steps that have a duration, and 0 when no step has one.
C31_MeanOfKnownDurations ==
    ConvertReturned =>
        IF StepsWithDuration = {} THEN RatioIs(ActionLatency, 0, 1)
        ELSE RatioIs(ActionLatency, SumOfDurations, Cardinality(StepsWithDuration))

\* what is computed: the sum of the known durations over the number of all
\* steps, pending ones included
LatencyOverAllSteps ==
    ConvertReturned =>
        IF DocSteps = << >> THEN RatioIs(ActionLatency, 0, 1)
        ELSE RatioIs(ActionLatency, SumOfDurations, Len(DocSteps))

\* C33 as stated: a step's error_context is set if and only if its status is
\* error.
C33_ContextIffError ==
    ConvertReturned =>
        \A n \in DOMAIN DocSteps :
            DocSteps[n].error_context # None <=> DocSteps[n].status = "error"

\* C33 as amended: a step with status error has an error_context and a
\* pending step has none; a step has an error_context exactly when one of the
\* `after` events it received carried an `error` key, so a step with status
\* success has one when a later `after` without `error` followed.
C33_ContextOfErrorAfter ==
    ConvertReturned =>
        /\ \A n \in DOMAIN DocSteps :
              /\ DocSteps[n].status = "error" => DocSteps[n].error_context # None
              /\ DocSteps[n].status = "pending" => DocSteps[n].error_context = None
        /\ \A i \in BeforeIdx :
              DocSteps[StepNo(i)].error_context # None <=> ErrorAftersOf(i) # {}

\* a step with status success that kept the error_context of an earlier
\* `after`
C33_Witness ==
    /\ ConvertReturned
    /\ trace_events = <<CvBeforeGoto, CvAfterErrorFull, CvAfter>>
    /\ DocSteps[1].status = "success"
    /\ DocSteps[1].error_context =
          Some([error_type |-> "TimeoutError", message |-> "Timeout 30000ms exceeded",
                stack |-> "at click"])

\* the loop takes an event that is neither a `before` nor an `after` that
\* follows a `before`
IgnoredEvent ==
    /\ convertPc = "loop" /\ eventPos < Len(trace_events) /\ eventPos' = eventPos + 1
    /\ LET event == trace_events[eventPos + 1] IN
       \/ TypeOf(event) \notin {"before", "after"}
       \/ /\ TypeOf(event) = "after"
          /\ \A i \in 1..eventPos : TypeOf(trace_events[i]) # "before"

StepsUntouched == IgnoredEvent => (steps' = steps /\ current_step' = current_step)

\* the steps opened so far are the `before` events taken so far
OpenedSoFar ==
    convertPc = "loop" =>
        Len(steps) + (IF current_step = None THEN 0 ELSE 1)
            = Cardinality({ i \in BeforeIdx : i <= eventPos })

\* C34: the document has as many steps as the stream has `before` events; an
\* `after` that arrives before the first `before`, and an event of any other
\* type, leaves the steps and the open step as they are.
C34_StepsAreBefores ==
    /\ [](OpenedSoFar /\ (ConvertReturned => OneStepPerBefore))
    /\ [][StepsUntouched]_vars

\* an `after` without an open step and an event of another type were taken,
\* and the one `before` gave the one step
C34_Witness ==
    /\ ConvertReturned
    /\ trace_events = <<CvAfterError, CvViewport, CvBeforeGoto>>
    /\ Len(DocSteps) = 1 /\ DocSteps[1].status = "pending"
    /\ DocSteps[1].error_context = None

(***************************************************************************)
(* The same conversion and projections on streams whose `before` events    *)
(* carry recovery attempts in their params.                                *)
(***************************************************************************)
CvBeforeRecovered ==
    [type |-> "before", method |-> "click", timestamp |-> 120,
     params |-> [selector |-> "#submit",
                 recovery_attempts |-> << [strategy |-> "wait", success |-> FALSE],
                                          [strategy |-> "retry", success |-> TRUE] >>]]
CvBeforeRetried ==
    [type |-> "before", method |-> "fill", timestamp |-> 300,
     params |-> [selector |-> "#name",
                 recovery_attempts |-> << [strategy |-> "wait"] >>]]

RecoveryEvents == { CvBeforeGoto, CvBeforeRecovered, CvBeforeRetried, CvAfter, CvAfterError }

InitRecovery ==
    /\ BasicIdle /\ LoadIdle /\ BrowserIdle /\ UtilsIdle
    /\ trace_events \in SeqsUpTo(RecoveryEvents, MaxEvents)
    /\ eventPos = 0 /\ steps = << >> /\ current_step = None
    /\ convertPc = "metadata"
    /\ network_events = << >> /\ convertResult = None /\ failuresResult = None
    /\ analysisLog = << >>

SpecRecovery == InitRecovery /\ [][NextConvert]_vars

TimestampOf(event) == Get(event, "timestamp", 0)
NonDecreasingTimestamps ==
    \A i, j \in DOMAIN trace_events :
        i < j => TimestampOf(trace_events[i]) <= TimestampOf(trace_events[j])
Interactions ==
    { i \in BeforeIdx : MethodOf(trace_events[i]) \in {"click", "fill"} }
FirstInteractionIdx == CHOOSE i \in Interactions : \A j \in Interactions : i <= j
TimeToFirstInteraction ==
    convertResult[1].performance.interaction_timing.time_to_first_interaction

\* C39: for a stream with non-decreasing timestamps
\* time_to_first_interaction is not negative: it is the timestamp of the
\* first `before` event with method click or fill minus the session start
\* timestamp, and 0 when the stream has no such event.
C39_FirstInteractionNotNegative ==
    (ConvertReturned /\ NonDecreasingTimestamps) =>
        /\ TimeToFirstInteraction >= 0
        /\ TimeToFirstInteraction =
              (IF Interactions = {} THEN 0
               ELSE TimestampOf(trace_events[FirstInteractionIdx])
                        - TimestampOf(trace_events[1]))

\* what is computed: without such an event the session start is subtracted
\* from the default 0
FirstInteractionFromDefault ==
    ConvertReturned =>
        TimeToFirstInteraction =
            (IF Interactions = {} THEN 0
             ELSE TimestampOf(trace_events[FirstInteractionIdx]))
                - TimestampOf(trace_events[1])

\* the calls of one projection made on the returned document
CallsOf(name) == { k \in DOMAIN analysisLog : analysisLog[k].name = name }
Document == convertResult[1]
NoKnownDuration == \A i \in 1..Len(Document.steps) : Document.steps[i].timing.duration = None

\* C14: when no step of the document has a known duration (no steps, or only
\* pending ones) analyze_timing returns, and its summary.average_step_duration
\* is 0.
C14_AverageOfNoDurations ==
    \A k \in CallsOf("analyze_timing") : NoKnownDuration =>
        /\ analysisLog[k].out.ok
        /\ analysisLog[k].out.value.summary.average_step_duration.num = 0

ErrorStepsOfDocument == { i \in 1..Len(Document.steps) : Document.steps[i].status = "error" }
RecoveredSteps ==
    { i \in ErrorStepsOfDocument :
        /\ Document.steps[i].error_context # None
        /\ Has(Document.steps[i].error_context[1], "recovery_attempts")
        /\ \E a \in 1..Len(Document.steps[i].error_context[1].recovery_attempts) :
              Document.steps[i].error_context[1].recovery_attempts[a].outcome = "success" }

AllKeys ==
    { "action_context", "decision_trail", "element_identification", "failure_analysis",
      "session_context", "recovery_info", "model_data", "temporal_context",
      "element_reporting", "error_context", "timing_analysis", "visual_state",
      "error_recovery", "performance" }

\* C16: for every document that was built, analyze_all returns a mapping with
\* exactly the 14 top-level keys; no projection raises because of a pending
\* step, a network request without status or an event without params.
C16_AnalyzeAllReturnsAllKeys ==
    \A k \in CallsOf("analyze_all") :
        analysisLog[k].out.ok /\ DOMAIN analysisLog[k].out.value = AllKeys

\* C32: analyze_performance returns, also for a document with a pending
\* step, and metrics_summary.total_interaction_time is the sum of the step
\* durations, a step without a duration counting 0.
C32_TotalInteractionTime ==
    \A k \in CallsOf("analyze_performance") :
        /\ analysisLog[k].out.ok
        /\ analysisLog[k].out.value.metrics_summary.total_interaction_time =
              SumKnownDurations(Document.steps)

\* what the call does: it raises TypeError exactly when a step is pending
\* and returns the sum otherwise
PerformanceNeedsDurations ==
    \A k \in CallsOf("analyze_performance") :
        IF \E n \in DOMAIN Document.steps : ~ HasDuration(Document.steps[n])
        THEN analysisLog[k].out = Raises("TypeError")
        ELSE /\ analysisLog[k].out.ok
             /\ analysisLog[k].out.value.metrics_summary.total_interaction_time =
                   SumKnownDurations(Document.steps)

\* the list names exactly the steps with status error, in step order
ListsErrorSteps(list) ==
    /\ { list[k].step_id : k \in DOMAIN list } = ErrorStepIds
    /\ Len(list) = Cardinality(ErrorStepIds)
    /\ \A k, m \in DOMAIN list : k < m => list[k].step_id < list[m].step_id

\* some recovery attempt of the step's `before` event records success
AttemptSucceeded(n) ==
    LET attempts == Document.steps[n].action_context.element_state.recovery_attempts
    IN  \E a \in DOMAIN attempts : Has(attempts[a], "success") /\ attempts[a].success

\* the list names error steps only, in step order, each with recovery
\* attempts and with final_status recovered exactly when one succeeded
ListsRecoverySteps(list) ==
    /\ \A k \in DOMAIN list :
          /\ list[k].step_id \in ErrorStepIds
          /\ Has(ElementState(Document.steps[list[k].step_id]), "recovery_attempts")
          /\ list[k].final_status =
                (IF AttemptSucceeded(list[k].step_id) THEN "recovered" ELSE "failed")
          /\ list[k].final_status = "recovered" <=>
                \E a \in DOMAIN list[k].recovery_attempts :
                    Get(list[k].recovery_attempts[a], "success", FALSE)
    /\ \A k, m \in DOMAIN list : k < m => list[k].step_id < list[m].step_id

DocumentKept == convertPc \in {"done", "analyzed"} => convertResult' = convertResult

\* C17: the document the converter returned stays as it was built through
\* every projection call: no call changes its steps, metadata, network or
\* performance.
C17_ProjectionsReadOnly ==
    /\ [] (convertPc \in {"done", "analyzed"} =>
              convertResult = Some(TraceDocument(trace_events, steps, network_events)))
    /\ [][DocumentKept]_vars

\* analyze_timing and analyze_failures were both called on a document that has
\* a closed and a pending step
C17_Witness ==
    /\ convertPc = "analyzed" /\ failuresResult # None
    /\ \E k \in CallsOf("analyze_timing") : analysisLog[k].out.ok
    /\ \E i \in 1..Len(Document.steps) : Document.steps[i].status = "pending"

(***************************************************************************)
(* EnhancedTraceAnalyzer._load_trace_data.                                 *)
(*                                                                         *)
(* What trace_file_path names: `path` says what kind of thing is there     *)
(*   "missing"          nothing                                            *)
(*   "notzip"           a file that is no zip archive                      *)
(*   "dir_no_tracezip"  a directory without a trace.zip subdirectory       *)
(*   "dir_empty"        a directory whose trace.zip/ holds no *.zip        *)
(*   "dir"              a directory whose trace.zip/ holds the archive     *)
(*   "zip"              the archive itself                                 *)
(* and `archive` gives the members trace.trace and trace.network of the    *)
(* archive (None: no such member), each a sequence of lines, and the       *)
(* member trace.enhanced when the archive has one.                         *)
(***************************************************************************)
LineBeforeGoto == JsonLine("before-goto", CvBeforeGoto)
LineBeforeClick == JsonLine("before-click", CvBeforeClick)
LineAfter == JsonLine("after", CvAfter)
LineAfterError == JsonLine("after-error", CvAfterError)
LineResponse404 == JsonLine("response-404", NetResponse404)

GoodArchive == [trace |-> Some(<<LineBeforeGoto, LineAfter>>), network |-> Some(<< >>)]
OtherArchive ==
    [trace |-> Some(<<LineBeforeClick, BlankLine, LineAfterError>>),
     network |-> Some(<<LineResponse404>>)]
NoArchive == [trace |-> None, network |-> None]
\* the archive of the enhanced_trace_file fixture: trace.enhanced is its only member
EnhancedOnlyArchive ==
    [trace |-> None, network |-> None, enhanced |-> Some("SAMPLE_ENHANCED_TRACE")]

Archives ==
    { GoodArchive, OtherArchive,
      [GoodArchive EXCEPT !.trace = None],
      [GoodArchive EXCEPT !.network = None],
      [GoodArchive EXCEPT !.trace = Some(<<LineBeforeGoto, BadLine>>)],
      [OtherArchive EXCEPT !.network = Some(<<BadLine>>)],
      [GoodArchive EXCEPT !.trace = Some(<<BlankLine>>)] }

FileStates ==
    { [path |-> "zip", archive |-> a] : a \in Archives \cup {EnhancedOnlyArchive} }
    \cup { [path |-> "dir", archive |-> a] :
             a \in { OtherArchive, [GoodArchive EXCEPT !.network = None] } }
    \cup { [path |-> k, archive |-> NoArchive] :
             k \in {"missing", "notzip", "dir_no_tracezip", "dir_empty"} }

\* variant: blank lines are decoded too
NonBlankAlways(line) == TRUE

\* `if line.strip()`
NonBlank(line) == Strip(line.raw) # ""
HasBadLine(lines) == \E i \in 1..Len(lines) : NonBlank(lines[i]) /\ lines[i].json = None

\* [json.loads(line) for the lines with line.strip()], for lines that all decode
DecodeLines(lines) ==
    LET kept == SelectSeq(lines, NonBlank)
    IN  [i \in 1..Len(kept) |-> kept[i].json[1]]

RECURSIVE RunLoop(_, _, _)
RunLoop(st, events, viewport) ==
    IF events = << >> THEN st
    ELSE RunLoop(OnEvent(st, Head(events), viewport), Tail(events), viewport)

\* _convert_playwright_trace as a function of its arguments (trace_events not empty)
ConvertPlaywrightTrace(events, net) ==
    LET st == RunLoop([steps |-> << >>, current_step |-> None], events,
                      Metadata(events).browser_info.viewport)
    IN  TraceDocument(events, PushOpen(st.steps, st.current_step), net)

\* variant: the path is handed to zipfile.ZipFile as it is
ResolvePathAsGiven(file) ==
    [ok |-> TRUE, cause |-> "",
     target |-> IF file.path \in {"dir", "dir_no_tracezip", "dir_empty"} THEN "directory"
                ELSE file.path]

\* the nested directory rule: what zipfile.ZipFile is given ("zip", "notzip",
\* "missing"), or the ValueError raised instead; for "dir" the archive is
\* trace_files[0], the first *.zip the glob of trace.zip/ lists
ResolvePath(file) ==
    IF file.path = "dir_no_tracezip"
    THEN [ok |-> FALSE, cause |-> "Invalid trace directory structure", target |-> ""]
    ELSE IF file.path = "dir_empty"
    THEN [ok |-> FALSE, cause |-> "No trace files found", target |-> ""]
    ELSE IF file.path = "dir"
    THEN [ok |-> TRUE, cause |-> "", target |-> "zip"]
    ELSE [ok |-> TRUE, cause |-> "", target |-> file.path]

Raised(stage, cause) == [ok |-> FALSE, stage |-> stage, cause |-> cause, doc |-> None]

\* The body of the try block: how far it gets and the exception it raises
\* (cause, the str() of it) or the mapping it builds.  Stages: "resolve" the
\* directory rule, "open" zipfile.ZipFile(), "trace" / "network" reading that
\* member of the opened archive, "convert", "done".
LoadOutcome(file) ==
    IF ~ ResolvePath(file).ok
    THEN Raised("resolve", ResolvePath(file).cause)
    ELSE IF ResolvePath(file).target = "missing"
    THEN Raised("open", "[Errno 2] No such file or directory")
    ELSE IF ResolvePath(file).target = "notzip"
    THEN Raised("open", "File is not a zip file")
    ELSE IF ResolvePath(file).target = "directory"
    THEN Raised("open", "[Errno 21] Is a directory")
    ELSE IF file.archive.trace = None
    THEN Raised("trace", "There is no item named 'trace.trace' in the archive")
    ELSE IF HasBadLine(file.archive.trace[1])
    THEN Raised("trace", "Expecting value: line 1 column 1 (char 0)")
    ELSE IF file.archive.network = None
    THEN Raised("network", "There is no item named 'trace.network' in the archive")
    ELSE IF HasBadLine(file.archive.network[1])
    THEN Raised("network", "Expecting value: line 1 column 1 (char 0)")
    ELSE IF DecodeLines(file.archive.trace[1]) = << >>
    THEN Raised("convert", "list index out of range")
    ELSE [ok |-> TRUE, stage |-> "done", cause |-> "",
          doc |-> Some(ConvertPlaywrightTrace(DecodeLines(file.archive.trace[1]),
                                              DecodeLines(file.archive.network[1])))]

\* variant: the cache is ignored
NeedsLoadAlways(cache) == TRUE

\* `if self._trace_data is None:`
NeedsLoad(cache) == cache = None

\* variant: a failed load leaves an empty document behind
CacheAfterFailureEmptyDocument(cache) ==
    Some([metadata |-> EmptyDict, steps |-> << >>, network |-> [requests |-> << >>],
          performance |-> EmptyDict])

\* self._trace_data after the except clause: the assignment was not reached
CacheAfterFailure(cache) == cache

\* variant: the message drops the cause
LoadErrorMessageNoCause(cause) == "Failed to load trace data"

\* raise ValueError(f"Failed to load trace data: {str(e)}")
LoadErrorMessage(cause) == "Failed to load trace data: " \o cause

(***************************************************************************)
(* The analytical calls.  Each analyze_* coroutine awaits only             *)
(* _load_trace_data, which contains no await: once the event loop runs a   *)
(* call it runs to its end, so concurrent calls interleave as whole calls. *)
(***************************************************************************)
Projections == {"analyze_failures", "analyze_session_context"}

Project(name, doc) ==
    IF name = "analyze_failures" THEN AnalyzeFailures(doc) ELSE AnalyzeSessionContext(doc)

\* a call that was made and has not run: `racing` says that no load had run yet
NewCall(proj) ==
    [pc |-> "started", proj |-> proj, racing |-> (loadLog = << >>), observed |-> None,
     result |-> None, error |-> ""]

InitLoad ==
    /\ BasicIdle /\ ConvertIdle /\ BrowserIdle /\ UtilsIdle
    /\ fs \in FileStates
    /\ _trace_data = None
    /\ loadLog = << >>
    /\ calls = << >>

\* a caller creates the coroutine / task; it has not run yet
StartCall(proj) ==
    /\ Len(calls) < MaxCalls
    /\ calls' = Append(calls, NewCall(proj))
    /\ UNCHANGED <<notLoadVars, fs, _trace_data, loadLog>>

\* the call runs with a document cached: no load
CallCached(t) ==
    /\ t \in DOMAIN calls /\ calls[t].pc = "started"
    /\ ~ NeedsLoad(_trace_data)
    /\ calls' = [calls EXCEPT ![t].pc = "returned", ![t].observed = _trace_data,
                              ![t].result = Some(Project(calls[t].proj, _trace_data[1]))]
    /\ UNCHANGED <<notLoadVars, fs, _trace_data, loadLog>>

\* the call runs the load, which succeeds and caches the document
CallLoads(t) ==
    /\ t \in DOMAIN calls /\ calls[t].pc = "started"
    /\ NeedsLoad(_trace_data)
    /\ LoadOutcome(fs).ok
    /\ _trace_data' = LoadOutcome(fs).doc
    /\ loadLog' = Append(loadLog, [ok |-> TRUE, stage |-> "done", by |-> t])
    /\ calls' = [calls EXCEPT ![t].pc = "returned", ![t].observed = _trace_data',
                              ![t].result = Some(Project(calls[t].proj, _trace_data'[1]))]
    /\ UNCHANGED <<notLoadVars, fs>>

\* the call runs the load, which raises: the call raises the wrapped error
CallLoadFails(t) ==
    /\ t \in DOMAIN calls /\ calls[t].pc = "started"
    /\ NeedsLoad(_trace_data)
    /\ ~ LoadOutcome(fs).ok
    /\ _trace_data' = CacheAfterFailure(_trace_data)
    /\ loadLog' = Append(loadLog, [ok |-> FALSE, stage |-> LoadOutcome(fs).stage, by |-> t])
    /\ calls' = [calls EXCEPT ![t].pc = "raised",
                              ![t].error = LoadErrorMessage(LoadOutcome(fs).cause)]
    /\ UNCHANGED <<notLoadVars, fs>>

\* the environment replaces what the path names
ChangeFile ==
    /\ Len(calls) < MaxCalls \/ \E t \in DOMAIN calls : calls[t].pc = "started"
    /\ \E file \in FileStates \ {fs} : fs' = file
    /\ UNCHANGED <<notLoadVars, _trace_data, loadLog, calls>>

NextLoad ==
    \/ \E proj \in Projections : StartCall(proj)
    \/ \E t \in 1..MaxCalls : CallCached(t)
    \/ \E t \in 1..MaxCalls : CallLoads(t)
    \/ \E t \in 1..MaxCalls : CallLoadFails(t)
    \/ ChangeFile

SpecLoad == InitLoad /\ [][NextLoad]_vars

(***************************************************************************)
(* Claims about one analyzer instance, checked under SpecLoad.             *)
(***************************************************************************)
Returned(t) == calls[t].pc = "returned"
\* the load attempts that opened the archive and read from it
ReadStages == {"trace", "network", "convert", "done"}
ArchiveReads == { k \in DOMAIN loadLog : loadLog[k].stage \in ReadStages }

\* C7: on an instance whose first load succeeded, the archive is read exactly
\* once whatever happens to the file afterwards, no later call fails, calls of
\* the same projection return identical results, and every call observes the
\* one cached document.
C7_LoadedOnce ==
    (loadLog # << >> /\ loadLog[1].ok) =>
        /\ Len(loadLog) = 1 /\ Cardinality(ArchiveReads) = 1
        /\ \A t \in DOMAIN calls : calls[t].pc # "raised"
        /\ \A t \in DOMAIN calls : Returned(t) => calls[t].observed = _trace_data
        /\ \A t1 \in DOMAIN calls : \A t2 \in DOMAIN calls :
              (Returned(t1) /\ Returned(t2) /\ calls[t1].proj = calls[t2].proj)
                  => calls[t1].result = calls[t2].result

\* two calls of the same projection returned, the second one after the file
\* was replaced by something that would load differently (or not at all)
C7_Witness ==
    /\ Len(calls) >= 2 /\ Returned(1) /\ Returned(2)
    /\ calls[1].proj = calls[2].proj
    /\ loadLog # << >> /\ loadLog[1].ok
    /\ LoadOutcome(fs).doc # _trace_data

RacingCalls == { t \in DOMAIN calls : calls[t].racing }

\* C8 as stated: the calls started before any load completed cause at most one
\* parse of the archive between them, and all observe the same document.
C8_ParsedAtMostOnce ==
    /\ Cardinality({ k \in ArchiveReads : loadLog[k].by \in RacingCalls }) <= 1
    /\ \A t1 \in RacingCalls : \A t2 \in RacingCalls :
          (Returned(t1) /\ Returned(t2)) => calls[t1].observed = calls[t2].observed

\* C8 as amended: among the calls started before any load completed at most
\* one parse SUCCEEDS, and every call that returns observes the one cached
\* document; a parse that fails caches nothing and the next call repeats it.
C8_OneSuccessfulParse ==
    /\ Cardinality({ k \in DOMAIN loadLog : loadLog[k].ok }) <= 1
    /\ \A t \in DOMAIN calls : Returned(t) =>
          (calls[t].observed # None /\ calls[t].observed = _trace_data)
    /\ \A k \in DOMAIN loadLog : loadLog[k].ok => _trace_data # None

\* two calls started before any load, run in the reverse order, both returned
C8_Witness ==
    /\ Len(calls) >= 2 /\ calls[1].racing /\ calls[2].racing
    /\ Returned(1) /\ Returned(2)
    /\ Len(loadLog) = 1 /\ loadLog[1].by = 2

\* C9 as stated: once a load attempt has failed the instance makes no further
\* load attempt (and so no later call can succeed).
C9_NoRetryAfterFailure ==
    \A k \in DOMAIN loadLog : ~ loadLog[k].ok => k = Len(loadLog)

\* the archive can be loaded: the path resolves, both members are there, every
\* non-blank line decodes and the event stream is not empty
Loadable(file) ==
    /\ file.path \in {"zip", "dir"}
    /\ file.archive.trace # None /\ file.archive.network # None
    /\ \A i \in DOMAIN file.archive.trace[1] :
          Strip(file.archive.trace[1][i].raw) = "" \/ file.archive.trace[1][i].json # None
    /\ \A i \in DOMAIN file.archive.network[1] :
          Strip(file.archive.network[1][i].raw) = "" \/ file.archive.network[1][i].json # None
    /\ \E i \in DOMAIN file.archive.trace[1] : Strip(file.archive.trace[1][i].raw) # ""

LastLoadFailed == loadLog # << >> /\ ~ loadLog[Len(loadLog)].ok
Ran(t) == calls[t].pc = "started" /\ calls'[t].pc # "started"

RetryAfterFailure ==
    \A t \in DOMAIN calls : (Ran(t) /\ LastLoadFailed) =>
        /\ Len(loadLog') = Len(loadLog) + 1
        /\ loadLog'[Len(loadLog')].by = t
        /\ calls'[t].pc = (IF Loadable(fs) THEN "returned" ELSE "raised")

\* C9 as amended: a failed load caches nothing, and every later call on the
\* instance attempts the load again: it fails again while the archive cannot
\* be loaded and returns a result once it can.
C9_FailureNotCached == [] (LastLoadFailed => _trace_data = None) /\ [][RetryAfterFailure]_vars

\* a call failed, and the next call on the same instance loaded the document
C9_Witness ==
    /\ Len(loadLog) = 2 /\ ~ loadLog[1].ok /\ loadLog[2].ok
    /\ calls[loadLog[1].by].pc = "raised" /\ Returned(loadLog[2].by)

\* the causes of failure the claim lists that hold of the file, as the str() of
\* the exception each one raises
CausesOf(file) ==
    (IF file.path = "missing" THEN {"[Errno 2] No such file or directory"} ELSE {})
    \cup (IF file.path = "dir_no_tracezip" THEN {"Invalid trace directory structure"} ELSE {})
    \cup (IF file.path = "dir_empty" THEN {"No trace files found"} ELSE {})
    \cup (IF file.path \in {"zip", "dir"} /\ file.archive.trace = None
          THEN {"There is no item named 'trace.trace' in the archive"} ELSE {})
    \cup (IF file.path \in {"zip", "dir"} /\ file.archive.network = None
          THEN {"There is no item named 'trace.network' in the archive"} ELSE {})
    \cup (IF /\ file.path \in {"zip", "dir"}
             /\ \/ file.archive.trace # None /\ HasBadLine(file.archive.trace[1])
                \/ file.archive.network # None /\ HasBadLine(file.archive.network[1])
          THEN {"Expecting value: line 1 column 1 (char 0)"} ELSE {})

LoadFailureRaised ==
    \A t \in DOMAIN calls : (Ran(t) /\ _trace_data = None /\ CausesOf(fs) # {}) =>
        /\ calls'[t].pc = "raised"
        /\ \E cause \in CausesOf(fs) :
              calls'[t].error = "Failed to load trace data: " \o cause
        /\ calls'[t].result = None /\ calls'[t].observed = None
        /\ _trace_data' = None
        /\ Len(loadLog') = Len(loadLog) + 1

EmptyStreamArchives ==
    { [trace |-> Some(lines), network |-> Some(net)] :
        lines \in { << >>, <<BlankLine>>, <<BlankLine, BlankLine>> },
        net \in { << >>, <<LineResponse404>> } }

\* the file is an archive that can be read and whose trace.trace holds no event
NoEvents(file) ==
    /\ file.path \in {"zip", "dir"}
    /\ file.archive.trace # None
    /\ \A i \in DOMAIN file.archive.trace[1] : Strip(file.archive.trace[1][i].raw) = ""
    /\ file.archive.network # None /\ ~ HasBadLine(file.archive.network[1])

EmptyStreamRaised ==
    \A t \in DOMAIN calls : (Ran(t) /\ _trace_data = None /\ NoEvents(fs)) =>
        /\ calls'[t].pc = "raised"
        /\ calls'[t].error = "Failed to load trace data: list index out of range"
        /\ calls'[t].result = None
        /\ _trace_data' = None

\* C38: loading an archive whose trace.trace holds no event (it is empty or
\* has blank lines only) fails with the load error of the conversion, for
\* every such archive and for every call that triggers the load; no document
\* is built or cached.
C38_EmptyStreamFails ==
    /\ [](\A a \in EmptyStreamArchives :
             LoadOutcome([path |-> "zip", archive |-> a])
                 = Raised("convert", "list index out of range"))
    /\ [][EmptyStreamRaised]_vars

\* a call failed on the archive whose trace.trace has one blank line
C38_Witness ==
    /\ NoEvents(fs) /\ _trace_data = None
    /\ \E t \in DOMAIN calls :
          /\ calls[t].pc = "raised"
          /\ calls[t].error = "Failed to load trace data: list index out of range"
    /\ \E k \in DOMAIN loadLog : ~ loadLog[k].ok /\ loadLog[k].stage = "convert"

EnhancedOnly(file) ==
    /\ file.path = "zip" /\ Has(file.archive, "enhanced")
    /\ file.archive.trace = None /\ file.archive.network = None

EnhancedArchiveLoads ==
    \A t \in DOMAIN calls : (Ran(t) /\ _trace_data = None /\ EnhancedOnly(fs)) =>
        /\ calls'[t].pc = "returned" /\ calls'[t].result # None
        /\ _trace_data' # None

\* C18: given an archive whose only member is trace.enhanced, the analyzer
\* loads it without error and the analytical call returns its result.
C18_EnhancedArchiveLoads == [][EnhancedArchiveLoads]_vars

NestedDirectoryResolved ==
    \A t \in DOMAIN calls : (Ran(t) /\ _trace_data = None) =>
        /\ fs.path = "dir" =>
              /\ loadLog'[Len(loadLog')].stage \in ReadStages
              /\ calls'[t].pc = (IF Loadable(fs) THEN "returned" ELSE "raised")
              /\ Loadable(fs) =>
                    _trace_data' = Some(ConvertPlaywrightTrace(
                                            DecodeLines(fs.archive.trace[1]),
                                            DecodeLines(fs.archive.network[1])))
        /\ fs.path = "dir_empty" =>
              /\ calls'[t].pc = "raised"
              /\ calls'[t].error = "Failed to load trace data: No trace files found"
        /\ fs.path = "dir_no_tracezip" =>
              /\ calls'[t].pc = "raised"
              /\ calls'[t].error = "Failed to load trace data: Invalid trace directory structure"

\* C19: a path that is a directory with a trace.zip subdirectory holding a
\* *.zip file is loaded from that inner file; a trace.zip subdirectory without
\* *.zip file, or a directory without trace.zip subdirectory, fails with an
\* error that says so.
C19_NestedDirectoryResolved == [][NestedDirectoryResolved]_vars

\* a first call failed on the directory rule, and the next one loaded the
\* document from the archive inside trace.zip/
C19_Witness ==
    /\ Len(loadLog) = 2 /\ loadLog[1].stage = "resolve" /\ loadLog[2].ok
    /\ fs.path = "dir" /\ Loadable(fs)
    /\ _trace_data = Some(ConvertPlaywrightTrace(DecodeLines(fs.archive.trace[1]),
                                                 DecodeLines(fs.archive.network[1])))

(***************************************************************************)
(* BrowserController.  Every coroutine runs on one event loop: it runs     *)
(* without interruption up to its next await that suspends, and any other  *)
(* ready coroutine may run before it resumes.  `await task` suspends only  *)
(* while the task is not finished.  An action is one such uninterrupted    *)
(* piece of a coroutine.                                                   *)
(*                                                                         *)
(* initCalls[c].pc   "waiting"  at `await self.init_promise` of line 19    *)
(*                   "owner"    at `await self.init_promise` of line 42    *)
(*                   "returned" / "raised"                                 *)
(* initTasks[i].pc   "scheduled", "starting" (await ...start()),           *)
(*                   "launching" (await ...launch()), "stopping" (await    *)
(*                   ...stop() in the except branch), "done" / "failed"    *)
(* cleanupCalls[k].pc "closing" (await browser.close()), "stopping"        *)
(*                   (await _playwright.stop()), "done"                    *)
(***************************************************************************)
Progress(step, status) == [step |-> step, status |-> status]
BrowserEvent(event_type, count) ==
    [event_type |-> event_type, count |-> count, status |-> ""]
CleanupEvent(status) == [event_type |-> "cleanup_playwright", count |-> 0, status |-> status]
InitCall(pc, awaits, how, saw) == [pc |-> pc, awaits |-> awaits, how |-> how, saw |-> saw]
Finished(task) == task.pc \in {"done", "failed"}
FailedLaunches == Cardinality({ i \in DOMAIN initTasks : initTasks[i].pc \in {"stopping", "failed"} })

\* The loop's queue of ready handles is first in, first out.  "task" is the
\* first step of a task made by create_task, "call" the wake-up of a call
\* whose awaited task finished.  An operation of Playwright completes at any
\* time after it began, so its continuation runs after the handles that were
\* ready when it began and possibly before later ones: "task_io" and
\* "cleanup_io" mark in the queue the moment such an operation began.
Handle(kind, id) == [kind |-> kind, id |-> id]
IsMarker(h) == h.kind \in {"task_io", "cleanup_io"}

RECURSIVE Settle(_)
\* a marker with no handle before it constrains nothing any more
Settle(q) == IF q # << >> /\ IsMarker(Head(q)) THEN Settle(Tail(q)) ELSE q

NextToRun(kind, id) == ready # << >> /\ Head(ready) = Handle(kind, id)
CanComplete(kind, id) == \A n \in DOMAIN ready : ready[n] # Handle(kind, id)

\* the wake-ups a finishing task schedules, in the order the calls began to
\* await it: the call that created it, then the calls that joined
WakeUps(i) ==
    LET Owns(c) == initCalls[c].pc = "owner" /\ initCalls[c].awaits = i
        Joined(c) == initCalls[c].pc = "waiting" /\ initCalls[c].awaits = i
        all == [c \in 1..Len(initCalls) |-> c]
        order == SelectSeq(all, Owns) \o SelectSeq(all, Joined)
    IN [n \in 1..Len(order) |-> Handle("call", order[n])]

\* the calls with the record of call c set (c is a call or the next new one)
PutCall(c, rec) ==
    IF c = Len(initCalls) + 1 THEN Append(initCalls, rec) ELSE [initCalls EXCEPT ![c] = rec]

\* variant: initialize does not look at the task another call created
MustAwaitNever(promise) == FALSE

\* `if self.init_promise is not None:`
MustAwait(promise) == promise # 0

\* lines 29-42: return if the browser is there, else create the init task
\* and await it; q is the queue left by what ran before
Proceed(c, how, q) ==
    IF browser # 0
    THEN /\ initCalls' = PutCall(c, InitCall("returned", 0, how, browser))
         /\ ready' = Settle(q)
         /\ UNCHANGED <<init_promise, progress_events, initTasks>>
    ELSE /\ progress_events' = Append(progress_events, Progress("browser_init", "starting"))
         /\ initTasks' = Append(initTasks, [pc |-> "scheduled", playwright |-> 0])
         /\ init_promise' = Len(initTasks) + 1
         /\ initCalls' = PutCall(c, InitCall("owner", Len(initTasks) + 1, how, 0))
         /\ ready' = Settle(Append(q, Handle("task", Len(initTasks) + 1)))

\* lines 20-27: the awaited task raised
AwaitRaised(c, how, q) ==
    /\ init_promise' = 0
    /\ browser' = 0
    /\ browser_events' = Append(browser_events,
                                BrowserEvent("initialization_failed", init_count + 1))
    /\ initCalls' = PutCall(c, InitCall("raised", 0, how, 0))
    /\ ready' = Settle(q)
    /\ UNCHANGED <<init_count, _playwright, progress_events, initTasks, cleanupCalls,
                   playwrights, browsers>>

\* a new initialize() call finds no task to await, or one that finished well
InitializeProceeds ==
    /\ Len(initCalls) + Len(cleanupCalls) < MaxControllerCalls
    /\ IF MustAwait(init_promise) THEN initTasks[init_promise].pc = "done" ELSE TRUE
    /\ Proceed(Len(initCalls) + 1, IF browser # 0 THEN "already" ELSE "owner", ready)
    /\ UNCHANGED <<notBrowserVars, browser, init_count, _playwright, browser_events,
                   cleanupCalls, playwrights, browsers>>

\* a new initialize() call awaits the task that is in flight
InitializeJoins ==
    /\ Len(initCalls) + Len(cleanupCalls) < MaxControllerCalls
    /\ MustAwait(init_promise) /\ ~ Finished(initTasks[init_promise])
    /\ initCalls' = Append(initCalls, InitCall("waiting", init_promise, "joined", 0))
    /\ UNCHANGED <<notBrowserVars, browser, init_promise, init_count, _playwright,
                   progress_events, browser_events, initTasks, cleanupCalls,
                   playwrights, browsers, ready>>

\* a new initialize() call awaits a task that has already failed
InitializeSeesFailure ==
    /\ Len(initCalls) + Len(cleanupCalls) < MaxControllerCalls
    /\ MustAwait(init_promise) /\ initTasks[init_promise].pc = "failed"
    /\ AwaitRaised(Len(initCalls) + 1, "joined", ready)
    /\ UNCHANGED notBrowserVars

\* a call waiting at line 19 resumes after its task finished well
WaiterProceeds(c) ==
    /\ c \in DOMAIN initCalls /\ initCalls[c].pc = "waiting"
    /\ NextToRun("call", c)
    /\ initTasks[initCalls[c].awaits].pc = "done"
    /\ Proceed(c, "joined", Tail(ready))
    /\ UNCHANGED <<notBrowserVars, browser, init_count, _playwright, browser_events,
                   cleanupCalls, playwrights, browsers>>

\* a call waiting at line 19 resumes with the exception of its task
WaiterRaises(c) ==
    /\ c \in DOMAIN initCalls /\ initCalls[c].pc = "waiting"
    /\ NextToRun("call", c)
    /\ initTasks[initCalls[c].awaits].pc = "failed"
    /\ AwaitRaised(c, "joined", Tail(ready))
    /\ UNCHANGED notBrowserVars

\* lines 43-48: the call that created the task resumes after it finished well
OwnerCompletes(c) ==
    /\ c \in DOMAIN initCalls /\ initCalls[c].pc = "owner"
    /\ NextToRun("call", c)
    /\ initTasks[initCalls[c].awaits].pc = "done"
    /\ progress_events' = Append(progress_events, Progress("browser_init", "completed"))
    /\ initCalls' = [initCalls EXCEPT ![c] = InitCall("returned", 0, @.how, browser)]
    /\ ready' = Settle(Tail(ready))
    /\ UNCHANGED <<notBrowserVars, browser, init_promise, init_count, _playwright,
                   browser_events, initTasks, cleanupCalls, playwrights, browsers>>

\* variant: the except branch of line 49 keeps init_promise
OwnerRaisesKeepsPromise(c) ==
    /\ c \in DOMAIN initCalls /\ initCalls[c].pc = "owner"
    /\ NextToRun("call", c)
    /\ initTasks[initCalls[c].awaits].pc = "failed"
    /\ browser' = 0
    /\ progress_events' = Append(progress_events, Progress("browser_init", "failed"))
    /\ initCalls' = [initCalls EXCEPT ![c] = InitCall("raised", 0, @.how, 0)]
    /\ ready' = Settle(Tail(ready))
    /\ UNCHANGED <<notBrowserVars, init_promise, init_count, _playwright, browser_events,
                   initTasks, cleanupCalls, playwrights, browsers>>

\* lines 49-59: the call that created the task resumes with its exception
OwnerRaises(c) ==
    /\ c \in DOMAIN initCalls /\ initCalls[c].pc = "owner"
    /\ NextToRun("call", c)
    /\ initTasks[initCalls[c].awaits].pc = "failed"
    /\ init_promise' = 0
    /\ browser' = 0
    /\ progress_events' = Append(progress_events, Progress("browser_init", "failed"))
    /\ initCalls' = [initCalls EXCEPT ![c] = InitCall("raised", 0, @.how, 0)]
    /\ ready' = Settle(Tail(ready))
    /\ UNCHANGED <<notBrowserVars, init_count, _playwright, browser_events, initTasks,
                   cleanupCalls, playwrights, browsers>>

\* _do_browser_init starts: lines 63-72, up to `await async_playwright().start()`
TaskStarts(i) ==
    /\ i \in DOMAIN initTasks /\ initTasks[i].pc = "scheduled"
    /\ NextToRun("task", i)
    /\ IF browser # 0
       THEN /\ initTasks' = [initTasks EXCEPT ![i].pc = "done"]
            /\ ready' = Settle(Tail(ready) \o WakeUps(i))
            /\ UNCHANGED progress_events
       ELSE /\ progress_events' = Append(progress_events, Progress("browser_init", "launching"))
            /\ initTasks' = [initTasks EXCEPT ![i].pc = "starting"]
            /\ ready' = Settle(Append(Tail(ready), Handle("task_io", i)))
    /\ UNCHANGED <<notBrowserVars, browser, init_promise, init_count, _playwright,
                   browser_events, initCalls, cleanupCalls, playwrights, browsers>>

\* lines 72-81: Playwright has started, up to `await playwright.chromium.launch(...)`
TaskPlaywrightStarted(i) ==
    /\ i \in DOMAIN initTasks /\ initTasks[i].pc = "starting"
    /\ CanComplete("task_io", i)
    /\ playwrights' = Append(playwrights, 0)
    /\ _playwright' = Len(playwrights) + 1
    /\ progress_events' = Append(progress_events, Progress("browser_init", "configuring"))
    /\ initTasks' = [initTasks EXCEPT ![i] = [pc |-> "launching", playwright |-> Len(playwrights) + 1]]
    /\ ready' = Settle(Append(ready, Handle("task_io", i)))
    /\ UNCHANGED <<notBrowserVars, browser, init_promise, init_count, browser_events,
                   initCalls, cleanupCalls, browsers>>

\* lines 81-90: the launch returned a browser
TaskLaunched(i) ==
    /\ i \in DOMAIN initTasks /\ initTasks[i].pc = "launching"
    /\ CanComplete("task_io", i)
    /\ browsers' = Append(browsers, 0)
    /\ browser' = Len(browsers) + 1
    /\ init_count' = init_count + 1
    /\ browser_events' = Append(browser_events, BrowserEvent("browser_launched", init_count + 1))
    /\ initTasks' = [initTasks EXCEPT ![i].pc = "done"]
    /\ ready' = Settle(ready \o WakeUps(i))
    /\ UNCHANGED <<notBrowserVars, init_promise, _playwright, progress_events, initCalls,
                   cleanupCalls, playwrights>>

\* lines 92-93 and 101-106: the launch raised; _cleanup_playwright up to
\* `await self._playwright.stop()`, or through it when there is no instance
TaskLaunchFails(i) ==
    /\ i \in DOMAIN initTasks /\ initTasks[i].pc = "launching"
    /\ CanComplete("task_io", i)
    /\ FailedLaunches < MaxLaunchFailures
    /\ IF _playwright # 0
       THEN /\ browser_events' = Append(browser_events, CleanupEvent("starting"))
            /\ playwrights' = [playwrights EXCEPT ![_playwright] = @ + 1]
            /\ initTasks' = [initTasks EXCEPT ![i].pc = "stopping"]
            /\ ready' = Settle(Append(ready, Handle("task_io", i)))
       ELSE /\ browser_events' = Append(browser_events, BrowserEvent("launch_failed", init_count))
            /\ initTasks' = [initTasks EXCEPT ![i].pc = "failed"]
            /\ ready' = Settle(ready \o WakeUps(i))
            /\ UNCHANGED playwrights
    /\ UNCHANGED <<notBrowserVars, browser, init_promise, init_count, _playwright,
                   progress_events, initCalls, cleanupCalls, browsers>>

\* lines 107-110 and 94-98: stop() returned; the exception leaves the task
TaskStopped(i) ==
    /\ i \in DOMAIN initTasks /\ initTasks[i].pc = "stopping"
    /\ CanComplete("task_io", i)
    /\ _playwright' = 0
    /\ browser_events' = browser_events \o
           << CleanupEvent("completed"), BrowserEvent("launch_failed", init_count) >>
    /\ initTasks' = [initTasks EXCEPT ![i].pc = "failed"]
    /\ ready' = Settle(ready \o WakeUps(i))
    /\ UNCHANGED <<notBrowserVars, browser, init_promise, init_count, progress_events,
                   initCalls, cleanupCalls, playwrights, browsers>>

\* a cleanup() call with its position; closes is the browser it found set,
\* after the number of initialize() calls made before it, settled whether
\* each of them had returned or raised by then
CleanupRecord(pc) ==
    [pc |-> pc, closes |-> browser, after |-> Len(initCalls),
     settled |-> \A c \in DOMAIN initCalls : initCalls[c].pc \in {"returned", "raised"}]

PutCleanup(k, pc) ==
    IF k = Len(cleanupCalls) + 1 THEN Append(cleanupCalls, CleanupRecord(pc))
    ELSE [cleanupCalls EXCEPT ![k].pc = pc]

\* lines 131-141 of cleanup: _cleanup_playwright up to its await, or, without
\* an instance, through to the end of cleanup; prog is the progress log so far
CleanupPlaywright(k, prog) ==
    IF _playwright # 0
    THEN /\ browser_events' = Append(browser_events, CleanupEvent("starting"))
         /\ playwrights' = [playwrights EXCEPT ![_playwright] = @ + 1]
         /\ cleanupCalls' = PutCleanup(k, "stopping")
         /\ progress_events' = prog
         /\ ready' = Settle(Append(ready, Handle("cleanup_io", k)))
         /\ UNCHANGED <<init_promise, init_count, _playwright>>
    ELSE /\ init_promise' = 0
         /\ init_count' = 0
         /\ progress_events' = Append(prog, Progress("cleanup", "completed"))
         /\ cleanupCalls' = PutCleanup(k, "done")
         /\ UNCHANGED <<browser_events, playwrights, _playwright, ready>>

\* a new cleanup() call: lines 114-130, up to its first await that suspends
CleanupCall ==
    /\ Len(initCalls) + Len(cleanupCalls) < MaxControllerCalls
    /\ IF browser # 0
       THEN /\ progress_events' = progress_events \o
                   << Progress("cleanup", "starting"), Progress("cleanup", "closing_browser") >>
            /\ browsers' = [browsers EXCEPT ![browser] = @ + 1]
            /\ cleanupCalls' = Append(cleanupCalls, CleanupRecord("closing"))
            /\ ready' = Settle(Append(ready, Handle("cleanup_io", Len(cleanupCalls) + 1)))
            /\ UNCHANGED <<init_promise, init_count, _playwright, browser_events, playwrights>>
       ELSE /\ CleanupPlaywright(Len(cleanupCalls) + 1,
                                 Append(progress_events, Progress("cleanup", "starting")))
            /\ UNCHANGED browsers
    /\ UNCHANGED <<notBrowserVars, browser, initCalls, initTasks>>

\* browser.close() returned: line 130, then _cleanup_playwright
CleanupClosed(k) ==
    /\ k \in DOMAIN cleanupCalls /\ cleanupCalls[k].pc = "closing"
    /\ CanComplete("cleanup_io", k)
    /\ browser' = 0
    /\ CleanupPlaywright(k, progress_events)
    /\ UNCHANGED <<notBrowserVars, initCalls, initTasks, browsers>>

\* variant: cleanup leaves init_count as it is
CleanupStoppedKeepsCount(k) ==
    /\ k \in DOMAIN cleanupCalls /\ cleanupCalls[k].pc = "stopping"
    /\ CanComplete("cleanup_io", k)
    /\ _playwright' = 0
    /\ browser_events' = Append(browser_events, CleanupEvent("completed"))
    /\ init_promise' = 0
    /\ progress_events' = Append(progress_events, Progress("cleanup", "completed"))
    /\ cleanupCalls' = [cleanupCalls EXCEPT ![k].pc = "done"]
    /\ UNCHANGED <<notBrowserVars, browser, init_count, initCalls, initTasks, playwrights,
                   browsers, ready>>

\* _playwright.stop() returned: lines 108-111, then lines 133-141
CleanupStopped(k) ==
    /\ k \in DOMAIN cleanupCalls /\ cleanupCalls[k].pc = "stopping"
    /\ CanComplete("cleanup_io", k)
    /\ _playwright' = 0
    /\ browser_events' = Append(browser_events, CleanupEvent("completed"))
    /\ init_promise' = 0
    /\ init_count' = 0
    /\ progress_events' = Append(progress_events, Progress("cleanup", "completed"))
    /\ cleanupCalls' = [cleanupCalls EXCEPT ![k].pc = "done"]
    /\ UNCHANGED <<notBrowserVars, browser, initCalls, initTasks, playwrights, browsers, ready>>

InitBrowser == BasicIdle /\ ConvertIdle /\ LoadIdle /\ BrowserIdle /\ UtilsIdle

NextBrowser ==
    \/ InitializeProceeds
    \/ InitializeJoins
    \/ InitializeSeesFailure
    \/ \E c \in 1..MaxControllerCalls : WaiterProceeds(c)
    \/ \E c \in 1..MaxControllerCalls : WaiterRaises(c)
    \/ \E c \in 1..MaxControllerCalls : OwnerCompletes(c)
    \/ \E c \in 1..MaxControllerCalls : OwnerRaises(c)
    \/ \E i \in 1..MaxControllerCalls : TaskStarts(i)
    \/ \E i \in 1..MaxControllerCalls : TaskPlaywrightStarted(i)
    \/ \E i \in 1..MaxControllerCalls : TaskLaunched(i)
    \/ \E i \in 1..MaxControllerCalls : TaskLaunchFails(i)
    \/ \E i \in 1..MaxControllerCalls : TaskStopped(i)
    \/ CleanupCall
    \/ \E k \in 1..MaxControllerCalls : CleanupClosed(k)
    \/ \E k \in 1..MaxControllerCalls : CleanupStopped(k)

SpecBrowser == InitBrowser /\ [][NextBrowser]_vars

NoFailureNoCleanup == FailedLaunches = 0 /\ cleanupCalls = << >>
LaunchedEvents == { n \in DOMAIN browser_events : browser_events[n].event_type = "browser_launched" }
ReturnedCalls == { c \in DOMAIN initCalls : initCalls[c].pc = "returned" }

\* C20: while no launch has failed and cleanup was never called, the
\* initialize calls made so far, one after the other or overlapping, launch
\* at most one browser, and once any of them has returned the browser was
\* launched exactly once: init_count is 1, one browser_launched event is in
\* the log, and every call that returned saw the one browser that is set.
C20_LaunchedExactlyOnce ==
    NoFailureNoCleanup =>
        /\ init_count <= 1 /\ Len(browsers) <= 1 /\ Len(playwrights) <= 1
        /\ Cardinality(LaunchedEvents) = init_count
        /\ \A c \in ReturnedCalls :
               /\ init_count = 1
               /\ browser # 0 /\ initCalls[c].saw = browser

\* two overlapping calls have returned: one created the task, the other
\* awaited the same task
C20_Witness ==
    /\ NoFailureNoCleanup
    /\ Len(initCalls) >= 2 /\ ReturnedCalls = DOMAIN initCalls
    /\ \E c, d \in ReturnedCalls : initCalls[c].how = "owner" /\ initCalls[d].how = "joined"

RaisedCalls == { c \in DOMAIN initCalls : initCalls[c].pc = "raised" }
LastStatus(events) == IF events = << >> THEN "" ELSE events[Len(events)].status

\* the call that created the init task resumes after the launch failed
LaunchFailureSeen(c) ==
    /\ c \in DOMAIN initCalls /\ initCalls[c].pc = "owner"
    /\ initTasks[initCalls[c].awaits].pc = "failed"
    /\ initCalls'[c] # initCalls[c]

\* the exception reaches the caller, and what the caller finds then
AfterLaunchFailure(c) ==
    LET task == initTasks[initCalls[c].awaits] IN
    /\ initCalls'[c].pc = "raised"
    /\ browser' = 0 /\ init_promise' = 0 /\ init_count' = 0
    /\ _playwright' = 0
    /\ task.playwright # 0 => playwrights'[task.playwright] = 1
    /\ LastStatus(progress_events') = "failed"

\* an initialize() call made after a failure, with nothing set
FreshCall ==
    /\ Len(initCalls') = Len(initCalls) + 1
    /\ browser = 0 /\ init_promise = 0 /\ RaisedCalls # {}

FreshAttempt ==
    /\ Len(initTasks') = Len(initTasks) + 1
    /\ initTasks'[Len(initTasks')].pc = "scheduled"
    /\ initCalls'[Len(initCalls')].pc = "owner"
    /\ init_promise' = Len(initTasks')

\* no other attempt is under way or has launched a browser
OnlyAttempt(c) ==
    \A t \in DOMAIN initTasks : t # initCalls[c].awaits => initTasks[t].pc = "failed"

LaunchFailurePropagates ==
    /\ \A c \in 1..MaxControllerCalls :
           (cleanupCalls = << >> /\ LaunchFailureSeen(c) /\ OnlyAttempt(c))
               => AfterLaunchFailure(c)
    /\ FreshCall => FreshAttempt

\* C21: with no cleanup call made and no other attempt under way, when the
\* launch of an initialize() call fails the call raises, and at that moment browser, init_promise and
\* _playwright are None, init_count is 0, the Playwright instance of the
\* attempt was stopped once and the last progress event has status failed;
\* an initialize() call made after a failure with nothing set creates a new
\* init task and awaits it.
C21_LaunchFailurePropagates == [][LaunchFailurePropagates]_vars

\* a call raised for its failed launch and a later call started a second task
C21_Witness ==
    /\ cleanupCalls = << >>
    /\ \E c \in RaisedCalls : initCalls[c].how = "owner"
    /\ Len(initTasks) = 2 /\ init_promise = 2 /\ initTasks[1].pc = "failed"

CleanupProgress(events) == SelectSeq(events, LAMBDA e : e.step = "cleanup")

\* the only cleanup() call made completes; it was made with a browser set,
\* after every initialize() call had returned, and none was made since
CleanupCompletes(k) ==
    /\ Len(cleanupCalls) = 1 /\ k = 1
    /\ cleanupCalls[k].pc # "done" /\ cleanupCalls'[k].pc = "done"
    /\ cleanupCalls[k].closes # 0 /\ cleanupCalls[k].settled
    /\ cleanupCalls[k].after = Len(initCalls)

AfterCleanup(k) ==
    /\ browsers'[cleanupCalls[k].closes] = 1
    /\ \A p \in DOMAIN playwrights' : playwrights'[p] = 1
    /\ browser' = 0 /\ _playwright' = 0 /\ init_promise' = 0 /\ init_count' = 0
    /\ LET log == CleanupProgress(progress_events') IN
       /\ Len(log) >= 2
       /\ log[1].status = "starting" /\ log[Len(log)].status = "completed"

CleanedUp == \A k \in 1..MaxControllerCalls : CleanupCompletes(k) => AfterCleanup(k)

\* C22: when a cleanup() call made after the initialize() calls returned, with
\* a browser set, completes (no other call made meanwhile), that browser was
\* closed once, every Playwright instance started was stopped once, browser,
\* _playwright and init_promise are None, init_count is 0, and the progress
\* events of step cleanup begin with starting and end with completed.
C22_CleanedUp == [][CleanedUp]_vars

\* initialize() returned, then cleanup() ran to its end
C22_Witness ==
    /\ Len(cleanupCalls) = 1 /\ cleanupCalls[1].pc = "done"
    /\ cleanupCalls[1].closes # 0 /\ cleanupCalls[1].settled
    /\ cleanupCalls[1].after = Len(initCalls)
    /\ ReturnedCalls # {} /\ browsers = << 1 >> /\ playwrights = << 1 >>

(***************************************************************************)
(* ErrorHandler (utils/error_handling.py).  handle_error runs without      *)
(* suspension from its first line to `await asyncio.sleep(...)`: awaiting  *)
(* _log_error does not suspend.                                            *)
(*                                                                         *)
(* handlerCalls[c].pc  "sleeping"  at `await asyncio.sleep(2 ** n)`        *)
(*                     "returned" / "raised"                               *)
(***************************************************************************)
MAX_RETRIES == 3

Operations == {"navigate", "click"}
TestError == [name |-> "ValueError", message |-> "Test error"]
RefusedError ==
    [name |-> "ConnectionError", message |-> "ERR_CONNECTION_REFUSED: Failed to connect"]
HandledErrors == {TestError, RefusedError}

\* re.search(r'ERR_[A-Z_]+', str(error)) on the messages above
extract_error_code(error) ==
    IF error = RefusedError THEN "ERR_CONNECTION_REFUSED" ELSE "UNKNOWN_ERROR"

\* the mapping _log_error stores (without its timestamp)
ErrorContextOf(error, operation, retry_count) ==
    [operation |-> operation, attempt |-> retry_count + 1,
     error |-> [name |-> error.name, message |-> error.message,
                code |-> extract_error_code(error)]]

MaxRetriesExceededError(operation, original_error) ==
    [operation |-> operation, original_error |-> original_error]

\* variant: the limit test lets one call too many through
AdmitsUpToLimit(retry_count) == retry_count <= MAX_RETRIES

\* `if retry_count >= self.MAX_RETRIES: raise`
Admits(retry_count) == retry_count < MAX_RETRIES

\* variant: the new count is not stored before the call suspends
CountNotStored(counts, operation, retry_count) == counts

\* variant: the mapping is replaced by one that holds the operation only
CountStoredAlone(counts, operation, retry_count) ==
    [k \in {operation} |-> retry_count + 1]

\* `self._retry_counts[operation] = retry_count + 1`
CountStored(counts, operation, retry_count) ==
    [k \in DOMAIN counts \cup {operation} |->
        IF k = operation THEN retry_count + 1 ELSE counts[k]]

\* a handle_error() call: concurrent is the number of calls for the operation
\* that were asleep when it was made, raises the exception it raised
HandlerCall(operation, error, pc, retry_count, concurrent) ==
    [operation |-> operation, error |-> error, pc |-> pc, retry_count |-> retry_count,
     concurrent |-> concurrent,
     raises |-> IF pc = "raised" THEN Some(MaxRetriesExceededError(operation, error))
                ELSE None]

\* the calls for the operation that are in their backoff sleep
Sleeping(operation) ==
    { c \in DOMAIN handlerCalls :
        handlerCalls[c].operation = operation /\ handlerCalls[c].pc = "sleeping" }

\* a new handle_error() call, up to its sleep or its raise
HandleError(error, operation) ==
    /\ Len(handlerCalls) < MaxHandlerCalls
    /\ LET retry_count == Get(_retry_counts, operation, 0)
           concurrent == Cardinality(Sleeping(operation)) IN
       IF Admits(retry_count)
       THEN /\ _retry_counts' = CountStored(_retry_counts, operation, retry_count)
            /\ _last_error' = Some(ErrorContextOf(error, operation, retry_count))
            /\ handlerCalls' = Append(handlerCalls,
                   HandlerCall(operation, error, "sleeping", retry_count, concurrent))
       ELSE /\ handlerCalls' = Append(handlerCalls,
                   HandlerCall(operation, error, "raised", retry_count, concurrent))
            /\ UNCHANGED <<_retry_counts, _last_error>>
    /\ UNCHANGED notHandlerVars

\* the sleep of a call is over: a later call for the same operation began
\* later and sleeps longer, so it cannot be over first
SleepOver(c) ==
    /\ c \in DOMAIN handlerCalls /\ handlerCalls[c].pc = "sleeping"
    /\ \A d \in Sleeping(handlerCalls[c].operation) : d >= c
    /\ handlerCalls' = [handlerCalls EXCEPT ![c].pc = "returned"]
    /\ UNCHANGED <<notHandlerVars, _retry_counts, _last_error>>

InitHandler == BasicIdle /\ ConvertIdle /\ LoadIdle /\ BrowserIdle /\ UtilsIdle

NextHandler ==
    \/ \E error \in HandledErrors, operation \in Operations : HandleError(error, operation)
    \/ \E c \in 1..MaxHandlerCalls : SleepOver(c)

SpecHandler == InitHandler /\ [][NextHandler]_vars

CallsFor(operation) ==
    { c \in DOMAIN handlerCalls : handlerCalls[c].operation = operation }
EarlierCalls(c) == { d \in CallsFor(handlerCalls[c].operation) : d < c }
AdmittedCalls(operation) == { c \in CallsFor(operation) : handlerCalls[c].pc # "raised" }

FirstCallsAdmitted ==
    \A c \in DOMAIN handlerCalls :
        IF Cardinality(EarlierCalls(c)) < MAX_RETRIES
        THEN handlerCalls[c].pc \in {"sleeping", "returned"} /\ handlerCalls[c].raises = None
        ELSE /\ handlerCalls[c].pc = "raised"
             /\ handlerCalls[c].raises # None
             /\ handlerCalls[c].raises[1].operation = handlerCalls[c].operation
             /\ handlerCalls[c].raises[1].original_error = handlerCalls[c].error

CountsBounded == \A operation \in DOMAIN _retry_counts : _retry_counts[operation] <= MAX_RETRIES

CountsKept ==
    \A operation \in DOMAIN _retry_counts :
        /\ operation \in DOMAIN _retry_counts'
        /\ _retry_counts'[operation] >= _retry_counts[operation]

\* C23: of the handle_error calls made for one operation the first
\* MAX_RETRIES are admitted (they sleep and return) and every later one
\* raises MaxRetriesExceededError with that operation and the error it was
\* given; a stored retry count never exceeds MAX_RETRIES, never decreases
\* and is never removed.
C23_FirstCallsAdmitted == [](FirstCallsAdmitted /\ CountsBounded) /\ [][CountsKept]_vars

\* four calls for one operation, one after the other: three returned, the
\* fourth raised
C23_Witness ==
    /\ Len(handlerCalls) = 4 /\ CallsFor("navigate") = 1..4
    /\ \A c \in 1..3 : handlerCalls[c].pc = "returned" /\ handlerCalls[c].concurrent = 0
    /\ handlerCalls[4].pc = "raised" /\ handlerCalls[4].concurrent = 0

\* C24: however the calls for one operation overlap at their sleeps, the
\* stored retry count is the number of calls admitted so far, which is at
\* most MAX_RETRIES: once three calls were admitted, a further call raises.
C24_NoLostIncrement ==
    \A operation \in Operations :
        /\ Get(_retry_counts, operation, 0) = Cardinality(AdmittedCalls(operation))
        /\ Cardinality(AdmittedCalls(operation)) <= MAX_RETRIES

\* three calls for one operation were asleep at the same time and have
\* returned; a fourth call made afterwards raised
C24_Witness ==
    /\ Len(handlerCalls) = 4 /\ CallsFor("navigate") = 1..4
    /\ \A c \in 1..3 : handlerCalls[c].pc = "returned" /\ handlerCalls[c].concurrent = c - 1
    /\ handlerCalls[4].pc = "raised" /\ handlerCalls[4].concurrent = 0

(***************************************************************************)
(* TaskLogger.execute_with_retry and RetryConfig (utils/task_logging.py).  *)
(* Delays are in milliseconds and jitter in thousandths, so that the       *)
(* arithmetic of get_delay is exact.  The random draw of the jitter is one *)
(* of the two ends or the middle of its interval.                          *)
(*                                                                         *)
(* retryRun[1].pc  "sleeping"  at `await asyncio.sleep(delay)`             *)
(*                 "invoking"  at `await operation()`                      *)
(*                 "returned" / "raised"                                   *)
(***************************************************************************)
RECURSIVE Pow2(_)
Pow2(n) == IF n = 0 THEN 1 ELSE 2 * Pow2(n - 1)
Min(a, b) == IF a <= b THEN a ELSE b
Max(a, b) == IF a >= b THEN a ELSE b

RetryConfigs ==
    [max_retries : 0..MaxRetries, base_delay : {0, 100, 1000},
     max_delay : {200, 10000}, jitter : {0, 100}]
JitterDraws == {-1, 0, 1}

\* variant: the exponent is the attempt, not the attempt minus one
get_delay_doubled(config, attempt, draw) ==
    IF attempt = 0 THEN 0
    ELSE IF attempt > config.max_retries THEN -1
    ELSE LET capped == Min(config.base_delay * Pow2(attempt), config.max_delay)
             jitter_range == (capped * config.jitter) \div 1000
         IN  Max(0, IF config.jitter > 0 THEN capped + draw * (jitter_range \div 2)
                    ELSE capped)

\* RetryConfig.get_delay; draw picks the value of random.uniform
get_delay(config, attempt, draw) ==
    IF attempt = 0 THEN 0
    ELSE IF attempt > config.max_retries THEN -1
    ELSE LET capped == Min(config.base_delay * Pow2(attempt - 1), config.max_delay)
             jitter_range == (capped * config.jitter) \div 1000
         IN  Max(0, IF config.jitter > 0 THEN capped + draw * (jitter_range \div 2)
                    ELSE capped)

\* an operation that raises on its first `fails` invocations and then
\* returns "success"; the n-th invocation raises an error of its own
RetryOperations == [fails : 0..(MaxRetries + 1)]
ErrorOf(invocation) == [type |-> "ValueError", message |-> invocation]
OperationFails(run) == run.invocations <= run.operation.fails

\* the context a logger has after one execute_with_retry call with
\* max_retries = 0 whose operation failed
UsedContext ==
    [retries |-> [attempts |-> 1, success |-> FALSE,
                  history |-> << [attempt |-> 1, error |-> ErrorOf(1), delay |-> -1] >>],
     error |-> Some([type |-> "ValueError", message |-> 1, step |-> 1,
                     action |-> "test_operation"]),
     current_step |-> [number |-> 1, status |-> "failed"]]

\* lines 513-525: the top of the loop, up to the await that suspends.  The
\* branch for a delay of -1 raises inside the try, which the except branch
\* of line 534 would catch; attempt never exceeds max_retries here
LoopTop(run, draw) ==
    LET delay == get_delay(run.config, run.attempt, draw) IN
    IF delay > 0
    THEN [run EXCEPT !.pc = "sleeping", !.delays = Append(@, delay)]
    ELSE [run EXCEPT !.pc = "invoking", !.delays = Append(@, delay),
                     !.invocations = @ + 1]

\* a new execute_with_retry() call on the logger
ExecuteWithRetry(config, operation) ==
    /\ retryRun = None
    /\ retryRun' = Some(LoopTop([config |-> config, operation |-> operation,
                                 pc |-> "start", attempt |-> 0, last_error |-> None,
                                 invocations |-> 0, delays |-> << >>, out |-> None,
                                 before |-> Len(context.retries.history)], 0))
    /\ UNCHANGED <<notRetryVars, context>>

\* the sleep is over: line 522, then the operation is invoked
RetrySleepOver ==
    /\ retryRun # None /\ retryRun[1].pc = "sleeping"
    /\ retryRun' = Some([retryRun[1] EXCEPT !.pc = "invoking", !.invocations = @ + 1])
    /\ UNCHANGED <<notRetryVars, context>>

\* variant: the attempts so far, without the one that succeeded
AttemptsBeforeSuccess(run) == run.attempt

\* line 529: the attempts recorded on success
AttemptsOnSuccess(run) == run.attempt + 1

\* lines 525-532: the operation returned
OperationReturns ==
    /\ retryRun # None /\ retryRun[1].pc = "invoking" /\ ~ OperationFails(retryRun[1])
    /\ context' = [context EXCEPT !.retries.attempts = AttemptsOnSuccess(retryRun[1]),
                                  !.retries.success = TRUE]
    /\ retryRun' = Some([retryRun[1] EXCEPT !.pc = "returned",
                                            !.out = Some([value |-> "success"])])
    /\ UNCHANGED notRetryVars

\* variant: the last allowed retry is not made
MayRetryBelowLimit(config, attempt) == attempt < config.max_retries

\* line 551: continue if max_retries is not exceeded
MayRetry(config, attempt) == attempt <= config.max_retries

\* lines 534-562: the operation raised; the except branch, then either the
\* top of the loop again or the final raise
OperationRaises(recorded, draw) ==
    /\ retryRun # None /\ retryRun[1].pc = "invoking" /\ OperationFails(retryRun[1])
    /\ LET run == retryRun[1]
           e == ErrorOf(run.invocations)
           attempt == run.attempt + 1
           entry == [attempt |-> attempt, error |-> e,
                     delay |-> get_delay(run.config, attempt, recorded)]
           logged == [context EXCEPT
                         !.retries.history = Append(@, entry),
                         !.error = Some([type |-> e.type, message |-> e.message,
                                         step |-> context.current_step.number,
                                         action |-> "test_operation"]),
                         !.current_step.status = "failed"]
           next == [run EXCEPT !.attempt = attempt, !.last_error = Some(e)]
       IN  IF MayRetry(run.config, attempt)
           THEN /\ context' = [logged EXCEPT
                                  !.current_step = [number |-> @.number + 1, status |-> "running"]]
                /\ retryRun' = Some(LoopTop(next, draw))
           ELSE /\ context' = [logged EXCEPT !.retries.attempts = attempt,
                                             !.retries.success = FALSE]
                /\ retryRun' = Some([next EXCEPT !.pc = "raised", !.out = Some([raised |-> e])])
    /\ UNCHANGED notRetryVars

InitRetry ==
    /\ BasicIdle /\ ConvertIdle /\ LoadIdle /\ BrowserIdle /\ HandlerIdle /\ CliIdle
    /\ context \in {FreshContext, UsedContext}
    /\ retryRun = None

NextRetry ==
    \/ \E config \in RetryConfigs, operation \in RetryOperations :
           ExecuteWithRetry(config, operation)
    \/ RetrySleepOver
    \/ OperationReturns
    \/ \E recorded \in JitterDraws, draw \in JitterDraws : OperationRaises(recorded, draw)

SpecRetry == InitRetry /\ [][NextRetry]_vars

\* a sleep ends, and an awaited operation returns or raises
SpecRetryLive ==
    /\ SpecRetry
    /\ WF_vars(RetrySleepOver)
    /\ WF_vars(OperationReturns)
    /\ WF_vars(\E recorded \in JitterDraws, draw \in JitterDraws : OperationRaises(recorded, draw))

Run == retryRun[1]
AlwaysFails == retryRun # None /\ Run.operation.fails > Run.config.max_retries
RunRaised == retryRun # None /\ Run.pc = "raised"
RunReturned == retryRun # None /\ Run.pc = "returned"
History == context.retries.history
\* the history entries the call has appended
Appended == SubSeq(History, Run.before + 1, Len(History))

\* the call ended as the claim says, for the part that does not speak of
\* the history
FailedAsClaimed ==
    /\ Run.invocations = Run.config.max_retries + 1
    /\ Run.out = Some([raised |-> ErrorOf(Run.invocations)])
    /\ context.retries.attempts = Run.config.max_retries + 1
    /\ context.retries.success = FALSE

OneEntryPerFailure(entries) ==
    /\ Len(entries) = Run.attempt
    /\ \A n \in DOMAIN entries :
           entries[n].attempt = n /\ entries[n].error = ErrorOf(n)

DelaysIncrease(entries) ==
    /\ entries # << >> /\ entries[Len(entries)].delay = -1
    /\ \A n, m \in 1..(Len(entries) - 1) : n < m => entries[n].delay < entries[m].delay

DelaysNeverDecrease(entries) ==
    /\ entries # << >> /\ entries[Len(entries)].delay = -1
    /\ Run.config.jitter = 0 =>
           \A n, m \in 1..(Len(entries) - 1) : n < m => entries[n].delay <= entries[m].delay

\* C25 as stated: after the call raised, the history of the logger has one
\* entry per failed attempt, with increasing delays and a last delay of -1.
C25_HistoryAsStated ==
    (AlwaysFails /\ RunRaised) =>
        FailedAsClaimed /\ OneEntryPerFailure(History) /\ DelaysIncrease(History)

RetriesExhausted ==
    /\ AlwaysFails => Run.invocations <= Run.config.max_retries + 1
    /\ (AlwaysFails /\ RunRaised) =>
           FailedAsClaimed /\ OneEntryPerFailure(Appended) /\ DelaysNeverDecrease(Appended)

\* C25: a call whose operation fails on every attempt ends: it invokes the
\* operation max_retries + 1 times and raises the last error, with
\* retries.attempts = max_retries + 1 and retries.success False; it has
\* appended one history entry per failed attempt, the last with delay -1 and,
\* with jitter 0, the earlier ones with delays that never decrease.
C25_RetriesExhausted == []RetriesExhausted /\ (AlwaysFails ~> RunRaised)

\* a call with max_retries = 2 raised after three invocations, on a logger
\* that had retried before
C25_Witness ==
    /\ AlwaysFails /\ RunRaised /\ Run.config.max_retries = MaxRetries
    /\ Run.invocations = MaxRetries + 1 /\ Run.before = 1
    /\ Len(Appended) = MaxRetries + 1

SucceededAsClaimed ==
    /\ Run.out = Some([value |-> "success"])
    /\ Run.invocations = Run.operation.fails + 1
    /\ context.retries.attempts = Run.operation.fails + 1
    /\ context.retries.success = TRUE

\* C26 as stated: after the call returned, the history of the logger has
\* exactly k entries.
C26_HistoryAsStated ==
    RunReturned => SucceededAsClaimed /\ Len(History) = Run.operation.fails

\* C26: a call whose operation fails k <= max_retries times and then
\* succeeds returns its result after k + 1 invocations, with
\* retries.attempts = k + 1 and retries.success True, and has appended
\* exactly k history entries, one per failure.
C26_SucceedsAfterFailures ==
    /\ retryRun # None /\ ~ AlwaysFails => Run.pc # "raised"
    /\ RunReturned =>
           /\ ~ AlwaysFails
           /\ SucceededAsClaimed
           /\ Len(Appended) = Run.operation.fails /\ OneEntryPerFailure(Appended)

\* the operation failed twice and then succeeded
C26_Witness ==
    /\ RunReturned /\ Run.operation.fails = 2 /\ Run.invocations = 3
    /\ Len(Appended) = 2

RECURSIVE Backoff(_, _)
\* base_delay doubled n - 1 times
Backoff(base_delay, n) == IF n <= 1 THEN base_delay ELSE 2 * Backoff(base_delay, n - 1)

ExpectedDelay(config, n) ==
    IF n = 0 THEN 0
    ELSE IF n > config.max_retries THEN -1
    ELSE Min(Backoff(config.base_delay, n), config.max_delay)

Attempts == 0..(MaxRetries + 2)

\* C27: with jitter 0, get_delay(0) is 0, get_delay(n) for 1 <= n <=
\* max_retries is min(base_delay * 2^(n-1), max_delay) and get_delay(n) for
\* n > max_retries is -1, both for every attempt number and for the delays
\* the call has applied and recorded; within the allowed attempts the delays
\* never decrease and never exceed max_delay.
C27_BackoffDelays ==
    (retryRun # None /\ Run.config.jitter = 0) =>
        /\ \A n \in Attempts : get_delay(Run.config, n, 0) = ExpectedDelay(Run.config, n)
        /\ \A n \in DOMAIN Run.delays : Run.delays[n] = ExpectedDelay(Run.config, n - 1)
        /\ \A n \in DOMAIN Appended : Appended[n].delay = ExpectedDelay(Run.config, n)
        /\ \A n, m \in 1..Run.config.max_retries :
               n <= m => /\ get_delay(Run.config, n, 0) <= get_delay(Run.config, m, 0)
                         /\ get_delay(Run.config, m, 0) <= Run.config.max_delay

\* with jitter 0, base_delay 100 and max_delay 10000 a call applied the
\* delays 0, 100, 200 and recorded 100, 200, -1
C27_Witness ==
    /\ RunRaised /\ Run.config = [max_retries |-> 2, base_delay |-> 100,
                                  max_delay |-> 10000, jitter |-> 0]
    /\ Run.delays = << 0, 100, 200 >>
    /\ Len(Appended) = 3
    /\ Appended[1].delay = 100 /\ Appended[2].delay = 200 /\ Appended[3].delay = -1

\* a handle_error() call is made in this step
NewHandlerCall == Len(handlerCalls') = Len(handlerCalls) + 1
TheNewCall == handlerCalls'[Len(handlerCalls')]

\* a call that raises leaves the counts and the last error as they were
RaisingCallKeepsHandler ==
    (NewHandlerCall /\ TheNewCall.raises # None) =>
        (_retry_counts' = _retry_counts /\ _last_error' = _last_error)

\* a call leaves the count of every other operation as it was, absent ones
\* absent
OtherCountsKept ==
    NewHandlerCall =>
        \A operation \in Operations \ {TheNewCall.operation} :
            GetOpt(_retry_counts', operation) = GetOpt(_retry_counts, operation)

\* C36: a handle_error call that raises MaxRetriesExceededError leaves every
\* retry count and the last logged error as they were, and a handle_error
\* call never changes the retry count of another operation.
C36_HandlerFrame == [][RaisingCallKeepsHandler /\ OtherCountsKept]_vars

\* a fourth call for navigate raised: the count is still 3, click has no
\* count and the last logged error is that of the third call
C36_Witness ==
    /\ Len(handlerCalls) = 4 /\ CallsFor("navigate") = 1..4
    /\ handlerCalls[4].raises # None
    /\ _retry_counts = [k \in {"navigate"} |-> MAX_RETRIES]
    /\ _last_error =
          Some(ErrorContextOf(handlerCalls[3].error, "navigate", handlerCalls[3].retry_count))
    /\ handlerCalls[3].error # handlerCalls[4].error

\* the init tasks that have begun to start Playwright or to launch, and have
\* neither failed nor launched yet
InFlight == { t \in DOMAIN initTasks : initTasks[t].pc \in {"starting", "launching", "stopping"} }
OpenBrowsers == { b \in DOMAIN browsers : browsers[b] = 0 }
RunningPlaywrights == { p \in DOMAIN playwrights : playwrights[p] = 0 }

\* C35: under every interleaving of initialize and cleanup calls at most one
\* launch is in flight or live: init_count is at most 1, at most one
\* Playwright instance runs and at most one browser is open, and no init
\* task starts Playwright or launches while another does or while a browser
\* is open.
C35_OneLaunchAtATime ==
    /\ init_count <= 1
    /\ Cardinality(RunningPlaywrights) <= 1
    /\ Cardinality(OpenBrowsers) <= 1
    /\ Cardinality(InFlight) + Cardinality(OpenBrowsers) <= 1

\* where an initialize, a cleanup and a second initialize lead: two browsers
\* launched and open, the first of them no longer referenced
TwoBrowsersOpen ==
    /\ init_count = 2 /\ Cardinality(OpenBrowsers) = 2 /\ browser = 2
    /\ Len(initCalls) = 2 /\ Len(cleanupCalls) = 1

(***************************************************************************)
(* cli/browser_use_cli.py: the module globals, the state file and the      *)
(* functions initialize_browser, close_browser and run_browser_task.  The  *)
(* calls are made one after another (main runs one command per             *)
(* asyncio.run, the tests await each call), so a call is one step.         *)
(* run_browser_task is called with record and trace_path at their          *)
(* defaults and with a supported provider.                                 *)
(***************************************************************************)
MaxCliCalls == 3

\* the file _get_browser_state reads: <tempdir>/browser_use_state
StatePath == "browser_use_state"
\* --temp-file of a command: not given, or the file that is read
TempFiles == {None, Some(StatePath)}

\* A URL is the sequence of its parts; Some(<< >>) is "" and None is None.
CliUrls ==
    {None, Some(<< >>),
     Some(<<"not-a-url">>),
     Some(<<"http", ":", "//">>),
     Some(<<"https", ":", "//">>),
     Some(<<"ftp", ":", "//", "example.com">>),
     Some(<<"https", ":", "//", "example.com">>),
     Some(<<"http", ":", "//", "localhost:8080">>),
     Some(<<"https", ":", "//", "prompt-forge.replit.app", "/">>)}

\* parts that hold a character no scheme may hold
NotSchemeWords == {":", "//", "/", "localhost:8080"}

\* urllib.parse.urlparse, for the scheme and the network location: the
\* scheme is what stands before the first ":" when it is made of scheme
\* characters; the location is what follows a leading "//", up to the
\* next "/"
urlparse(url) ==
    LET has_scheme == Len(url) >= 2 /\ url[2] = ":" /\ url[1] \notin NotSchemeWords
        rest == IF has_scheme THEN SubSeq(url, 3, Len(url)) ELSE url
    IN  [scheme |-> IF has_scheme THEN url[1] ELSE "",
         netloc |-> IF Len(rest) >= 2 /\ rest[1] = "//" /\ rest[2] # "/"
                    THEN rest[2] ELSE ""]

\* line 133: `if url:`
UrlGiven(url) == url # None /\ url[1] # << >>

\* lines 134-140: the message returned for a URL that fails the check,
\* None when the URL passes or is not checked
ValidateUrl(url) ==
    IF ~ UrlGiven(url) THEN None
    ELSE LET result == urlparse(IF url = None THEN << >> ELSE url[1]) IN
         IF result.scheme = "" \/ result.netloc = ""
         THEN Some("Invalid URL provided: Invalid URL format")
         ELSE None

\* lines 30-37
_get_browser_state(file) == file # None /\ file[1] = "true"

\* lines 39-44: nothing is written when no path is given
_set_browser_state(file, running, temp_file_path) ==
    IF temp_file_path # None /\ temp_file_path[1] = StatePath
    THEN Some(IF running THEN "true" ELSE "false")
    ELSE file

\* the module's state: the globals, the browsers and the state file
CliState ==
    [browser |-> _global_browser, context |-> _global_browser_context,
     browsers |-> cliBrowsers, file |-> state_file]

\* lines 95-107
close_browser(g) ==
    LET g1 == IF g.context # None
              THEN [g EXCEPT !.browsers[g.context[1]].context_open = FALSE,
                             !.context = None]
              ELSE g
        g2 == IF g1.browser # None
              THEN [g1 EXCEPT !.browsers[g1.browser[1]].open = FALSE,
                              !.browser = None]
              ELSE g1
    IN  [g2 EXCEPT !.file = _set_browser_state(g2.file, FALSE, None)]

\* lines 46-93; browser.new_context either gives a context or raises
initialize_browser(g, launch) ==
    LET g1 == IF _get_browser_state(g.file) \/ g.browser # None
              THEN IF g.browser # None
                   THEN close_browser(g)
                   ELSE [g EXCEPT !.file = _set_browser_state(g.file, FALSE, None)]
              ELSE g
    IN  IF launch = "ok"
        THEN LET n == Len(g1.browsers) + 1 IN
             [g |-> [g1 EXCEPT !.browsers = Append(@, [open |-> TRUE, context_open |-> TRUE]),
                               !.browser = Some(n), !.context = Some(n),
                               !.file = _set_browser_state(g1.file, TRUE, None)],
              out |-> [how |-> "return", value |-> "True"]]
        ELSE [g |-> g1, out |-> [how |-> "raise", value |-> "launch error"]]

\* lines 257-277: the agent runs; its result is returned after the context
\* was closed, its exception leaves the context open
RunAgent(g, agent) ==
    IF agent = "ok"
    THEN [g |-> IF g.context # None
                THEN [g EXCEPT !.browsers[g.context[1]].context_open = FALSE,
                               !.context = None]
                ELSE g,
          out |-> [how |-> "return", value |-> "final result"]]
    ELSE [g |-> g, out |-> [how |-> "raise", value |-> "agent error"]]

\* lines 109-300
run_browser_task(g, url, launch, agent) ==
    IF ValidateUrl(url) # None
    THEN [g |-> g, out |-> [how |-> "return", value |-> ValidateUrl(url)[1]]]
    ELSE LET first == IF ~ _get_browser_state(g.file)
                      THEN initialize_browser(g, launch)
                      ELSE [g |-> g, out |-> [how |-> "return", value |-> "True"]]
             second == IF first.g.browser = None \/ first.g.context = None
                       THEN initialize_browser(first.g, launch)
                       ELSE first
         IN  IF first.out.how = "raise" THEN first
             ELSE IF second.out.how = "raise" THEN second
             ELSE RunAgent(second.g, agent)

CliCall(op, url, out) == [op |-> op, url |-> url, out |-> out]

\* the module's state becomes g and the call is recorded
CliDone(g, call) ==
    /\ _global_browser' = g.browser
    /\ _global_browser_context' = g.context
    /\ cliBrowsers' = g.browsers
    /\ state_file' = g.file
    /\ cliCalls' = Append(cliCalls, call)
    /\ UNCHANGED notCliVars

\* the state a new process starts with, and the one it leaves: the
\* globals are unset and the browsers of the process that ended are gone
NewProcess(g) ==
    [g EXCEPT !.browser = None, !.context = None,
              !.browsers = [n \in DOMAIN g.browsers |->
                               [open |-> FALSE, context_open |-> FALSE]]]

InitializeBrowser(launch) ==
    /\ Len(cliCalls) < MaxCliCalls
    /\ LET r == initialize_browser(CliState, launch) IN
       CliDone(r.g, CliCall("initialize_browser", None, r.out))

CloseBrowser ==
    /\ Len(cliCalls) < MaxCliCalls
    /\ CliDone(close_browser(CliState),
               CliCall("close_browser", None, [how |-> "return", value |-> "None"]))

RunBrowserTask(url, launch, agent) ==
    /\ Len(cliCalls) < MaxCliCalls
    /\ LET r == run_browser_task(CliState, url, launch, agent) IN
       CliDone(r.g, CliCall("run_browser_task", url, r.out))

\* lines 344-366: the command `start`, a process of its own
MainStart(temp_file, launch) ==
    /\ Len(cliCalls) < MaxCliCalls
    /\ LET r == initialize_browser(NewProcess(CliState), launch)
           g == IF r.out.how = "raise" THEN r.g
                ELSE [r.g EXCEPT !.file = _set_browser_state(@, r.out.value = "True",
                                                             temp_file)]
       IN  CliDone(NewProcess(g), CliCall("main start", temp_file, r.out))

\* lines 391-395: the command `close`, a process of its own
MainClose(temp_file) ==
    /\ Len(cliCalls) < MaxCliCalls
    /\ LET g == close_browser(NewProcess(CliState)) IN
       CliDone(NewProcess([g EXCEPT !.file = _set_browser_state(@, FALSE, temp_file)]),
               CliCall("main close", temp_file, [how |-> "return", value |-> "None"]))

InitCli ==
    /\ BasicIdle /\ ConvertIdle /\ LoadIdle /\ BrowserIdle /\ UtilsIdle

NextCli ==
    \/ \E launch \in {"ok", "error"} : InitializeBrowser(launch)
    \/ CloseBrowser
    \/ \E url \in CliUrls, launch \in {"ok", "error"}, agent \in {"ok", "error"} :
           RunBrowserTask(url, launch, agent)
    \/ \E temp_file \in TempFiles, launch \in {"ok", "error"} : MainStart(temp_file, launch)
    \/ \E temp_file \in TempFiles : MainClose(temp_file)

SpecCli == InitCli /\ [][NextCli]_vars

CliReturned(call, value) == call.out = [how |-> "return", value |-> value]

\* a session is running at call j: an earlier initialize_browser returned
\* True and no close_browser was called since
SessionRunning(j) ==
    \E i \in 1..(j - 1) :
        /\ cliCalls[i].op = "initialize_browser" /\ CliReturned(cliCalls[i], "True")
        /\ \A k \in (i + 1)..(j - 1) : cliCalls[k].op = "initialize_browser"

\* C28: while a browser session is running, a second initialize_browser
\* call returns False.
C28_SecondInitializeFails ==
    \A j \in DOMAIN cliCalls :
        (cliCalls[j].op = "initialize_browser" /\ SessionRunning(j))
            => CliReturned(cliCalls[j], "False")

\* what the second call does: it closes the running browser and starts
\* another one, or raises when that one cannot be started
SecondInitializeReplaces ==
    \A j \in DOMAIN cliCalls :
        (cliCalls[j].op = "initialize_browser" /\ SessionRunning(j))
            => \/ CliReturned(cliCalls[j], "True")
               \/ cliCalls[j].out = [how |-> "raise", value |-> "launch error"]

InvalidUrlMessages == {"Invalid URL provided: Invalid URL format"}
HttpSchemes == {"http", "https"}

\* the URLs the claim calls invalid
InvalidAsClaimed(url) ==
    \/ url = None
    \/ url[1] = << >>
    \/ urlparse(url[1]).scheme = ""
    \/ urlparse(url[1]).netloc = ""
    \/ urlparse(url[1]).scheme \notin HttpSchemes

SaysInvalidUrl(call) == call.out.how = "return" /\ call.out.value \in InvalidUrlMessages

\* C29: run_browser_task returns a message containing "Invalid URL
\* provided" for every url without scheme or host, with a scheme other than
\* http(s), empty or None, and no such message for a well-formed http(s) URL.
C29_InvalidUrlsRejected ==
    \A j \in DOMAIN cliCalls :
        cliCalls[j].op = "run_browser_task"
            => (SaysInvalidUrl(cliCalls[j]) <=> InvalidAsClaimed(cliCalls[j].url))

\* what the check does: the message is returned exactly for a non-empty url
\* whose scheme or network location is empty
RejectedUrls ==
    \A j \in DOMAIN cliCalls :
        cliCalls[j].op = "run_browser_task"
            => (SaysInvalidUrl(cliCalls[j]) <=>
                    /\ UrlGiven(cliCalls[j].url)
                    /\ \/ urlparse(cliCalls[j].url[1]).scheme = ""
                       \/ urlparse(cliCalls[j].url[1]).netloc = "")

LastCliCall == cliCalls[Len(cliCalls)]

\* the flag after the last call is that of the session
FlagFollowsLastCall ==
    cliCalls # << >> =>
        /\ (LastCliCall.op = "initialize_browser" /\ CliReturned(LastCliCall, "True"))
               => _get_browser_state(state_file)
        /\ LastCliCall.op = "close_browser" => ~ _get_browser_state(state_file)

\* a browser of this process is running
BrowserRunning == _global_browser # None /\ cliBrowsers[_global_browser[1]].open

\* a call of run_browser_task that finds a running browser starts none
TaskKeepsRunningBrowser ==
    (/\ Len(cliCalls') = Len(cliCalls) + 1
     /\ cliCalls'[Len(cliCalls')].op = "run_browser_task"
     /\ BrowserRunning)
        => cliBrowsers' = cliBrowsers

\* C40: the persisted browser-session flag follows the session: after
\* initialize_browser returned True _get_browser_state() reads running,
\* after close_browser it reads not running, and run_browser_task starts a
\* browser only when none is running.
C40_FlagFollowsSession == []FlagFollowsLastCall /\ [][TaskKeepsRunningBrowser]_vars

\* what the calls do: initialize_browser, close_browser and run_browser_task
\* leave the file as it is, since they write the flag without a path
InProcessCallLeavesFile ==
    (/\ Len(cliCalls') = Len(cliCalls) + 1
     /\ cliCalls'[Len(cliCalls')].op \in {"initialize_browser", "close_browser",
                                          "run_browser_task"})
        => state_file' = state_file
FlagOnlyWrittenByCommands == [][InProcessCallLeavesFile]_vars

\* a running browser is replaced by run_browser_task
TaskReplacedRunningBrowser ==
    /\ Len(cliCalls) >= 2
    /\ cliCalls[1].op = "initialize_browser" /\ CliReturned(cliCalls[1], "True")
    /\ cliCalls[2].op = "run_browser_task"
    /\ Len(cliBrowsers) = 2
    /\ ~ cliBrowsers[1].open
    /\ ~ _get_browser_state(state_file)

=============================================================================
